---- MODULE Spec2Model ----
(***************************************************************************)
(* Model of the NeurofluxionAI middleware: the in-memory entity store      *)
(* (server/storage.ts, class MemStorage) and the /api/chat handler with    *)
(* its duplicate detection (server/routes.ts).                             *)
(*                                                                         *)
(* Every `await` of a handler is a suspension point: the store call in     *)
(* `await storage.f(...)` runs when it is called (MemStorage methods have  *)
(* no await inside, so their bodies are atomic), and the handler resumes   *)
(* in a later step.  Other handlers may run in between.                    *)
(***************************************************************************)
EXTENDS Integers, Sequences, FiniteSets, TLC

\* ------------------------------------------------------------------ bounds
\* The clock takes the instants k*WINDOW-1 and k*WINDOW, k <= MaxEpoch.
MaxEpoch == 1
\* Identifiers handed out after the six bootstrap agents.
MaxNewIds == 4
\* Concurrent /api/chat handlers.
MaxReq == 2
\* Records created where the calls by key (get, update, delete) are explored.
MaxKeyRecords == 2
\* Messages posted next to the /api/chat client whose duplicate check is
\* explored.
MaxPosted == 3

\* ------------------------------------------------------- program constants
\* routes.ts:181  now - createdAt < 30000
WINDOW == 30000
\* routes.ts:176  conversationId || 1
DefaultConversation == 1
\* storage.ts:49
InitialId == 1

\* ------------------------------------------------------------- value sets
Null == "null"
Undefined == "undefined"
\* req.body.conversationId missing
Absent == -1

Requests == 1..MaxReq
\* storage.ts:53-60
defaultAgents ==
  <<"QueryHandler", "SemanticSearch", "FallbackRAG", "Summarizer", "TTS", "Vision">>

Instants ==
  {t \in {k * WINDOW + o : k \in 0..MaxEpoch, o \in {-1, 0}} : t >= 0}

\* Bodies of POST /api/chat.
ChatMessages == {"hello", "Hello"}
InvalidMessages == {"", Undefined}
ChatConversationIds == {Absent, 7}
\* The chat protocol is explored inside one conversation, the default one.
DedupConversationIds == {Absent}
ChatMessageTypes == {Undefined, "voice"}

\* What the inference backend can answer to POST /api/chat.
BackendPayloads ==
  { [response |-> "reply", metadata |-> "md", agent_used |-> "QueryHandler"],
    [response |-> "reply", metadata |-> Undefined, agent_used |-> Undefined] }

\* routes.ts:46, 74: the two proxied routes, mounted with app.use (any method).
AgentsStatusRoute == "/api/agents/status"
HealthRoute == "/api/health"
ProxyRoutes == {AgentsStatusRoute, HealthRoute}
ProxyMethods == {"GET", "POST", "DELETE"}

\* routes.ts:64-69: the names of the fallback roster, in the order written.
fallbackAgents ==
  <<"QueryHandler", "SemanticSearch", "FallbackRAG", "Summarizer", "TTS", "Vision">>

NoMetrics == [vectorDBSize |-> "", ollamaStatus |-> "", responseTime |-> ""]

\* What the backend can answer to the proxied calls.
BackendAgentStatuses ==
  { <<[id |-> 1, agentName |-> "QueryHandler", status |-> "processing",
       lastActivity |-> 0, metadata |-> Null]>> }

BackendHealth ==
  { [status |-> "healthy", timestamp |-> 0, agents |-> <<>>,
     metrics |-> [vectorDBSize |-> "12", ollamaStatus |-> "connected",
                  responseTime |-> "5ms"]] }

BackendProxyPayloads(route) ==
  IF route = AgentsStatusRoute THEN BackendAgentStatuses ELSE BackendHealth

\* The body of a response that was not sent yet.
NoBody(route) ==
  IF route = AgentsStatusRoute THEN <<>>
  ELSE [status |-> Null, timestamp |-> 0, agents |-> <<>>, metrics |-> NoMetrics]

NoUpstreamRequest == [method |-> Null, body |-> Undefined]

IdleProxy(route) ==
  [pc |-> "idle", method |-> Null, sent |-> NoUpstreamRequest, status |-> 0,
   kind |-> "none", body |-> NoBody(route)]

NullMessage ==
  [id |-> 0, conversationId |-> 0, content |-> "", role |-> Null,
   messageType |-> Null, metadata |-> Null, agentUsed |-> Null, createdAt |-> 0]

NoData == [response |-> "", metadata |-> Undefined, agent_used |-> Undefined]

NoResponse ==
  [status |-> 0, userMessage |-> NullMessage, aiMessage |-> NullMessage,
   metadata |-> Null]

NoConversation == [id |-> 0, title |-> Null, createdAt |-> 0, updatedAt |-> 0]

\* Map.get of a key that is not there (undefined), per family.
NoAgentStatus ==
  [id |-> 0, agentName |-> Null, status |-> Null, lastActivity |-> 0,
   metadata |-> Null]

NoVectorDocument ==
  [id |-> 0, title |-> Null, content |-> Null, filePath |-> Null,
   documentType |-> Null, createdAt |-> 0]

\* No direct MemStorage call was made yet.
NoCall == [op |-> "none", name |-> Null, id |-> 0, threw |-> Null, branch |-> Null]

\* No direct read of the store was made yet.
NoRead == [op |-> "none", key |-> 0, value |-> Undefined, threw |-> Null]

IdleDelete == [pc |-> "idle", id |-> 0, status |-> 0]

IdleGet == [pc |-> "idle", id |-> 0, conversation |-> NoConversation, status |-> 0]

\* No body was sent to the backend's /api/chat.
NoChatRequest ==
  [message |-> Undefined, conversation_id |-> Absent, message_type |-> Undefined]

IdleRequest ==
  [pc |-> "idle", message |-> Undefined, conversationId |-> Absent,
   messageType |-> Undefined, recentMessages |-> <<>>, now |-> 0,
   userMessage |-> NullMessage, sent |-> NoChatRequest, backendData |-> NoData,
   branch |-> "none", response |-> NoResponse]

\* ------------------------------------------------------------------ state
VARIABLES
  clock,          \* Date.now() / new Date(), in ms
  currentId,      \* MemStorage.currentId
  messages,       \* MemStorage.messages, the Map's entries in insertion order
  conversations,  \* MemStorage.conversations, entries in insertion order
  agentStatuses,  \* MemStorage.agentStatuses, entries in insertion order
  vectorDocuments,\* MemStorage.vectorDocuments, entries in insertion order
  reqs,           \* the /api/chat handlers in flight, one per slot
  upstreamCalls,  \* number of fetch(BACKEND/api/chat) calls issued
  upstreamOk,     \* number of those calls that were answered with a 2xx status
  delReq,         \* the DELETE /api/conversations/:id handler
  getReq,         \* the GET /api/conversations/:id handler
  proxyReqs,      \* the /api/agents/status and /api/health handlers
  storageCall,    \* outcome of the last direct MemStorage call
  returned        \* what the last direct read of the store returned

vars ==
  <<clock, currentId, messages, conversations, agentStatuses, vectorDocuments,
    reqs, upstreamCalls, upstreamOk, delReq, getReq, proxyReqs, storageCall,
    returned>>

\* The handlers of the conversation routes.
crud == <<delReq, getReq>>

store == <<currentId, messages, conversations, agentStatuses, vectorDocuments>>

\* The proxy handlers and the record of the last direct store calls.
aside == <<proxyReqs, storageCall, returned>>

\* ------------------------------------------------------- sequence helpers
RECURSIVE SelectSeqBy(_, _)
\* Array.prototype.filter, written out for a predicate given as a set of
\* accepted elements.
SelectSeqBy(s, keep) ==
  IF s = <<>> THEN <<>>
  ELSE IF Head(s) \in keep
       THEN <<Head(s)>> \o SelectSeqBy(Tail(s), keep)
       ELSE SelectSeqBy(Tail(s), keep)

Range(s) == {s[i] : i \in 1..Len(s)}

RECURSIVE InsertByCreatedAt_Descending(_, _)
InsertByCreatedAt_Descending(m, sorted) ==
  IF sorted = <<>> THEN <<m>>
  ELSE IF Head(sorted).createdAt - m.createdAt < 0
       THEN <<m>> \o sorted
       ELSE <<Head(sorted)>> \o InsertByCreatedAt_Descending(m, Tail(sorted))

RECURSIVE InsertByCreatedAt_TiesFirst(_, _)
InsertByCreatedAt_TiesFirst(m, sorted) ==
  IF sorted = <<>> THEN <<m>>
  ELSE IF Head(sorted).createdAt - m.createdAt >= 0
       THEN <<m>> \o sorted
       ELSE <<Head(sorted)>> \o InsertByCreatedAt_TiesFirst(m, Tail(sorted))

RECURSIVE InsertByCreatedAt(_, _)
\* Put m behind every element that does not compare greater: with the
\* elements taken left to right this is the stable ascending sort.
InsertByCreatedAt(m, sorted) ==
  IF sorted = <<>> THEN <<m>>
  ELSE IF Head(sorted).createdAt - m.createdAt > 0
       THEN <<m>> \o sorted
       ELSE <<Head(sorted)>> \o InsertByCreatedAt(m, Tail(sorted))

RECURSIVE SortByCreatedAt(_)
SortByCreatedAt(s) ==
  IF s = <<>> THEN <<>>
  ELSE InsertByCreatedAt(s[Len(s)], SortByCreatedAt(SubSeq(s, 1, Len(s) - 1)))

\* --------------------------------------------------------- MemStorage
\* storage.ts:118-122
getMessages(msgs, conversationId) ==
  SortByCreatedAt(
    SelectSeqBy(msgs, {m \in Range(msgs) : m.conversationId = conversationId}))

\* storage.ts:80-82
getConversation(convs, id) ==
  IF \E i \in 1..Len(convs) : convs[i].id = id
  THEN (CHOOSE c \in Range(convs) : c.id = id)
  ELSE NoConversation

\* storage.ts:124-126
getMessage(msgs, id) ==
  IF \E i \in 1..Len(msgs) : msgs[i].id = id
  THEN (CHOOSE m \in Range(msgs) : m.id = id)
  ELSE NullMessage

SpreadMessage_Restamp(message, updates, now) ==
  [message EXCEPT
     !.conversationId =
        IF updates.conversationId = Absent THEN @ ELSE updates.conversationId,
     !.content = IF updates.content = Undefined THEN @ ELSE updates.content,
     !.role = IF updates.role = Undefined THEN @ ELSE updates.role,
     !.messageType = IF updates.messageType = Undefined THEN @ ELSE updates.messageType,
     !.metadata = IF updates.metadata = Undefined THEN @ ELSE updates.metadata,
     !.agentUsed = IF updates.agentUsed = Undefined THEN @ ELSE updates.agentUsed,
     !.createdAt = now]

\* storage.ts:146: { ...message, ...updates }: a property the patch carries
\* replaces the record's, one it lacks (Undefined, Absent) leaves it.
SpreadMessage(message, updates, now) ==
  [message EXCEPT
     !.conversationId =
        IF updates.conversationId = Absent THEN @ ELSE updates.conversationId,
     !.content = IF updates.content = Undefined THEN @ ELSE updates.content,
     !.role = IF updates.role = Undefined THEN @ ELSE updates.role,
     !.messageType = IF updates.messageType = Undefined THEN @ ELSE updates.messageType,
     !.metadata = IF updates.metadata = Undefined THEN @ ELSE updates.metadata,
     !.agentUsed = IF updates.agentUsed = Undefined THEN @ ELSE updates.agentUsed]

\* storage.ts:141-149: the messages after updateMessage(id, updates) on a
\* known id; the record keeps its place in the Map.
updateMessage(msgs, id, updates, now) ==
  [i \in 1..Len(msgs) |->
     IF msgs[i].id = id THEN SpreadMessage(msgs[i], updates, now) ELSE msgs[i]]

\* storage.ts:151-153
deleteMessage(msgs, id) == SelectSeqBy(msgs, {m \in Range(msgs) : m.id # id})

RECURSIVE InsertByUpdatedAt_TiesFirst(_, _)
InsertByUpdatedAt_TiesFirst(c, sorted) ==
  IF sorted = <<>> THEN <<c>>
  ELSE IF c.updatedAt - Head(sorted).updatedAt >= 0
       THEN <<c>> \o sorted
       ELSE <<Head(sorted)>> \o InsertByUpdatedAt_TiesFirst(c, Tail(sorted))

RECURSIVE InsertByUpdatedAt(_, _)
\* storage.ts:75-77: the comparator (a, b) => b.updatedAt - a.updatedAt puts
\* c in front of the first element it is newer than, behind its equals.
InsertByUpdatedAt(c, sorted) ==
  IF sorted = <<>> THEN <<c>>
  ELSE IF c.updatedAt - Head(sorted).updatedAt > 0
       THEN <<c>> \o sorted
       ELSE <<Head(sorted)>> \o InsertByUpdatedAt(c, Tail(sorted))

RECURSIVE SortByUpdatedAt(_)
\* Array.prototype.sort is stable: the elements are placed left to right.
SortByUpdatedAt(s) ==
  IF s = <<>> THEN <<>>
  ELSE InsertByUpdatedAt(s[Len(s)], SortByUpdatedAt(SubSeq(s, 1, Len(s) - 1)))

\* storage.ts:74-78
getConversations(convs) == SortByUpdatedAt(convs)

OrNull(v) == IF v = Undefined \/ v = "" THEN Null ELSE v

\* storage.ts:128-139: the record createMessage stores and returns.
NewMessage(id, insertMessage, now) ==
  [id |-> id,
   conversationId |-> insertMessage.conversationId,
   content |-> insertMessage.content,
   role |-> insertMessage.role,
   messageType |-> insertMessage.messageType,
   metadata |-> OrNull(insertMessage.metadata),
   agentUsed |-> OrNull(insertMessage.agentUsed),
   createdAt |-> now]

createMessage(msgs, id, insertMessage, now) ==
  Append(msgs, NewMessage(id, insertMessage, now))

\* storage.ts:84-95
createConversation(convs, id, title, now) ==
  Append(convs, [id |-> id, title |-> title, createdAt |-> now, updatedAt |-> now])

RECURSIVE CascadeDelete_SkipNext(_, _)
CascadeDelete_SkipNext(entries, id) ==
  IF entries = <<>> THEN <<>>
  ELSE IF Head(entries).conversationId = id
       THEN IF Tail(entries) = <<>> THEN <<>>
            ELSE <<Head(Tail(entries))>>
                   \o CascadeDelete_SkipNext(Tail(Tail(entries)), id)
       ELSE <<Head(entries)>> \o CascadeDelete_SkipNext(Tail(entries), id)

\* storage.ts:110-114: the cascade loop over a copy of the entries.
RECURSIVE CascadeDelete(_, _)
CascadeDelete(entries, id) ==
  IF entries = <<>> THEN <<>>
  ELSE IF Head(entries).conversationId = id
       THEN CascadeDelete(Tail(entries), id)
       ELSE <<Head(entries)>> \o CascadeDelete(Tail(entries), id)

\* storage.ts:108
RemoveConversation(convs, id) ==
  SelectSeqBy(convs, {c \in Range(convs) : c.id # id})

SeedAgents_SkipLast(firstId, now) ==
  [i \in 1..(Len(defaultAgents) - 1) |->
     [key |-> defaultAgents[i],
      value |-> [id |-> firstId + i - 1, agentName |-> defaultAgents[i],
                 status |-> "ready", lastActivity |-> now, metadata |-> Null]]]

\* storage.ts:62-70: the constructor's forEach, agent i gets id currentId++;
\* the Map's entries are kept as (key, value) pairs in insertion order.
SeedAgents(firstId, now) ==
  [i \in 1..Len(defaultAgents) |->
     [key |-> defaultAgents[i],
      value |-> [id |-> firstId + i - 1, agentName |-> defaultAgents[i],
                 status |-> "ready", lastActivity |-> now, metadata |-> Null]]]

\* Map.prototype.has / get / set on a Map kept as its entries; set keeps the
\* position of a key that is present and appends one that is not.
MapHas(entries, key) == \E i \in 1..Len(entries) : entries[i].key = key

MapGet(entries, key) ==
  entries[CHOOSE i \in 1..Len(entries) : entries[i].key = key].value

MapSet(entries, key, value) ==
  IF MapHas(entries, key)
  THEN [i \in 1..Len(entries) |->
          IF entries[i].key = key THEN [key |-> key, value |-> value]
          ELSE entries[i]]
  ELSE Append(entries, [key |-> key, value |-> value])

\* storage.ts:160-162
getAgentStatus(entries, agentName) ==
  IF MapHas(entries, agentName) THEN MapGet(entries, agentName) ELSE NoAgentStatus

\* storage.ts:167, 188: { ...existing, ...updates }: a property the patch
\* carries replaces the record's, one it lacks (Undefined) leaves it.
SpreadAgentStatus(existing, updates) ==
  [existing EXCEPT
     !.agentName = IF updates.agentName = Undefined THEN @ ELSE updates.agentName,
     !.status = IF updates.status = Undefined THEN @ ELSE updates.status,
     !.metadata = IF updates.metadata = Undefined THEN @ ELSE updates.metadata]

SpreadConversation_KeepUpdatedAt(conversation, updates, now) ==
  [conversation EXCEPT
     !.title = IF updates.title = Undefined THEN @ ELSE updates.title]

\* storage.ts:102: { ...conversation, ...updates, updatedAt: new Date() }
SpreadConversation(conversation, updates, now) ==
  [conversation EXCEPT
     !.title = IF updates.title = Undefined THEN @ ELSE updates.title,
     !.updatedAt = now]

\* storage.ts:97-105: the conversations after updateConversation(id, updates)
\* on a known id; the record keeps its place in the Map.
updateConversation(convs, id, updates, now) ==
  [i \in 1..Len(convs) |->
     IF convs[i].id = id THEN SpreadConversation(convs[i], updates, now)
     ELSE convs[i]]

\* storage.ts:202-213
createVectorDocument(docs, id, insertVectorDocument, now) ==
  Append(docs,
    [id |-> id, title |-> insertVectorDocument.title,
     content |-> insertVectorDocument.content,
     filePath |-> OrNull(insertVectorDocument.filePath),
     documentType |-> insertVectorDocument.documentType,
     createdAt |-> now])

\* storage.ts:198-200
getVectorDocument(docs, id) ==
  IF \E i \in 1..Len(docs) : docs[i].id = id
  THEN (CHOOSE d \in Range(docs) : d.id = id)
  ELSE NoVectorDocument

\* storage.ts:215-217
deleteVectorDocument(docs, id) ==
  SelectSeqBy(docs, {d \in Range(docs) : d.id # id})

\* The last identifier the model hands out.
MaxId == InitialId + Len(defaultAgents) + MaxNewIds - 1

\* ------------------------------------------------------------ /api/chat
\* routes.ts:176, 198, 223
ConversationOrDefault(conversationId) ==
  IF conversationId = Absent \/ conversationId = 0
  THEN DefaultConversation ELSE conversationId

\* routes.ts:171  messageType = 'text'
MessageTypeOrDefault(messageType) ==
  IF messageType = Undefined THEN "text" ELSE messageType

IsMissing_UndefinedOnly(message) == message = Undefined

\* routes.ts:172  !message
IsMissing(message) == message = Undefined \/ message = ""

IsDuplicate_AnyRole(m, message, now) ==
  /\ m.content = message
  /\ now - m.createdAt < WINDOW

IsDuplicate_Inclusive(m, message, now) ==
  /\ m.role = "user"
  /\ m.content = message
  /\ now - m.createdAt <= WINDOW

IsDuplicate_ShortWindow(m, message, now) ==
  /\ m.role = "user"
  /\ m.content = message
  /\ now - m.createdAt < WINDOW - 1

\* routes.ts:179-181: the predicate of recentMessages.find
IsDuplicate(m, message, now) ==
  /\ m.role = "user"
  /\ m.content = message
  /\ now - m.createdAt < WINDOW

FindDuplicate_Last(recentMessages, message, now) ==
  LET hits == {i \in 1..Len(recentMessages) :
                 IsDuplicate(recentMessages[i], message, now)}
  IN IF hits = {} THEN NullMessage
     ELSE recentMessages[CHOOSE i \in hits : \A j \in hits : i >= j]

\* routes.ts:178: Array.prototype.find, the first element that qualifies
\* (NullMessage stands for undefined).
FindDuplicate(recentMessages, message, now) ==
  LET hits == {i \in 1..Len(recentMessages) :
                 IsDuplicate(recentMessages[i], message, now)}
  IN IF hits = {} THEN NullMessage
     ELSE recentMessages[CHOOSE i \in hits : \A j \in hits : i <= j]

AiMessagesAfter_AnyRole(recentMessages, duplicate) ==
  SelectSeqBy(recentMessages,
    {m \in Range(recentMessages) : m.createdAt > duplicate.createdAt})

AiMessagesAfter_NotStrict(recentMessages, duplicate) ==
  SelectSeqBy(recentMessages,
    {m \in Range(recentMessages) :
       m.role = "assistant" /\ m.createdAt >= duplicate.createdAt})

\* routes.ts:185
AiMessagesAfter(recentMessages, duplicate) ==
  SelectSeqBy(recentMessages,
    {m \in Range(recentMessages) :
       m.role = "assistant" /\ m.createdAt > duplicate.createdAt})

\* The model hands out identifiers up to MaxId.
IdBudget(n) == currentId + n <= MaxId + 1

\* A slot is free before its first request and after a response was sent;
\* an arriving request takes the lowest free slot.
IsFree(r) == reqs[r].pc \in {"idle", "done"}
TakesSlot(r) == IsFree(r) /\ \A x \in Requests : IsFree(x) => r <= x


Init ==
  /\ clock = 0
  /\ agentStatuses = SeedAgents(InitialId, 0)
  /\ currentId = InitialId + Len(defaultAgents)
  /\ messages = <<>>
  /\ conversations = <<>>
  /\ vectorDocuments = <<>>
  /\ reqs = [r \in Requests |-> IdleRequest]
  /\ upstreamCalls = 0
  /\ upstreamOk = 0
  /\ delReq = IdleDelete
  /\ getReq = IdleGet
  /\ proxyReqs = [route \in ProxyRoutes |-> IdleProxy(route)]
  /\ storageCall = NoCall
  /\ returned = NoRead

\* Time passes.
Tick ==
  /\ \E t \in Instants : t > clock /\ clock' = t
  /\ UNCHANGED <<store, reqs, upstreamCalls, upstreamOk, crud, aside>>

\* routes.ts:170-176: a request arrives; validation, then the history read is
\* issued (the read itself happens inside the call) and the handler awaits it.
ChatStart(r, message, conversationId, messageType) ==
  /\ TakesSlot(r)
  /\ IF IsMissing(message)
     THEN reqs' = [reqs EXCEPT ![r] =
            [IdleRequest EXCEPT !.pc = "done", !.branch = "invalid",
               !.response.status = 400]]
     ELSE /\ reqs' = [reqs EXCEPT ![r] =
               [IdleRequest EXCEPT !.pc = "awaitGetMessages",
                  !.message = message, !.conversationId = conversationId,
                  !.messageType = MessageTypeOrDefault(messageType),
                  !.recentMessages =
                     getMessages(messages, ConversationOrDefault(conversationId))]]
  /\ UNCHANGED <<clock, store, upstreamCalls, upstreamOk, crud, aside>>

HistoryForCheck_Live(r) ==
  getMessages(messages, ConversationOrDefault(reqs[r].conversationId))

\* routes.ts:176-178: the array the check scans is the one getMessages
\* returned before the await.
HistoryForCheck(r) == reqs[r].recentMessages

ChatCheck_Restamp(r) ==
  /\ reqs[r].pc = "awaitGetMessages"
  /\ LET q == reqs[r]
         now == clock
         duplicate == FindDuplicate(HistoryForCheck(r), q.message, now)
         aiMessages == AiMessagesAfter(HistoryForCheck(r), duplicate)
         userMessage ==
           NewMessage(currentId,
             [conversationId |-> ConversationOrDefault(q.conversationId),
              content |-> q.message, role |-> "user",
              messageType |-> q.messageType,
              metadata |-> Null, agentUsed |-> Null], clock)
     IN IF duplicate # NullMessage
        THEN /\ reqs' = [reqs EXCEPT ![r] =
                  [q EXCEPT !.pc = "done", !.now = now,
                     !.branch = IF Len(aiMessages) > 0 THEN "replay" ELSE "pending",
                     !.response =
                       IF Len(aiMessages) > 0
                       THEN [status |-> 200, userMessage |-> duplicate,
                             aiMessage |-> aiMessages[1],
                             metadata |-> aiMessages[1].metadata]
                       ELSE [status |-> 200, userMessage |-> duplicate,
                             aiMessage |-> NullMessage, metadata |-> Null]]]
             /\ messages' = [i \in 1..Len(messages) |->
                  IF messages[i] = duplicate
                  THEN [duplicate EXCEPT !.createdAt = now]
                  ELSE messages[i]]
             /\ UNCHANGED currentId
        ELSE /\ IdBudget(1)
             /\ messages' = Append(messages, userMessage)
             /\ currentId' = currentId + 1
             /\ reqs' = [reqs EXCEPT ![r] =
                  [q EXCEPT !.pc = "awaitCreateUser", !.now = now,
                     !.userMessage = userMessage]]
  /\ UNCHANGED <<clock, conversations, agentStatuses, vectorDocuments, upstreamCalls, upstreamOk, crud, aside>>

\* routes.ts:177-204: the duplicate check on the history read before the await;
\* replay, pending, or the user message of a fresh turn is stored.
ChatCheck(r) ==
  /\ reqs[r].pc = "awaitGetMessages"
  /\ LET q == reqs[r]
         now == clock
         duplicate == FindDuplicate(HistoryForCheck(r), q.message, now)
         aiMessages == AiMessagesAfter(HistoryForCheck(r), duplicate)
         userMessage ==
           NewMessage(currentId,
             [conversationId |-> ConversationOrDefault(q.conversationId),
              content |-> q.message, role |-> "user",
              messageType |-> q.messageType,
              metadata |-> Null, agentUsed |-> Null], clock)
     IN IF duplicate # NullMessage
        THEN /\ reqs' = [reqs EXCEPT ![r] =
                  [q EXCEPT !.pc = "done", !.now = now,
                     !.branch = IF Len(aiMessages) > 0 THEN "replay" ELSE "pending",
                     !.response =
                       IF Len(aiMessages) > 0
                       THEN [status |-> 200, userMessage |-> duplicate,
                             aiMessage |-> aiMessages[1],
                             metadata |-> aiMessages[1].metadata]
                       ELSE [status |-> 200, userMessage |-> duplicate,
                             aiMessage |-> NullMessage, metadata |-> Null]]]
             /\ UNCHANGED <<currentId, messages>>
        ELSE /\ IdBudget(1)
             /\ messages' = Append(messages, userMessage)
             /\ currentId' = currentId + 1
             /\ reqs' = [reqs EXCEPT ![r] =
                  [q EXCEPT !.pc = "awaitCreateUser", !.now = now,
                     !.userMessage = userMessage]]
  /\ UNCHANGED <<clock, conversations, agentStatuses, vectorDocuments, upstreamCalls, upstreamOk, crud, aside>>

\* routes.ts:211-215: the body of the upstream call; JSON.stringify leaves
\* out a conversation_id that is undefined (Absent).
UpstreamBody(q) ==
  [message |-> q.message, conversation_id |-> q.conversationId,
   message_type |-> q.messageType]

ChatFetch_Retry(r) ==
  /\ reqs[r].pc = "awaitCreateUser"
  /\ reqs' = [reqs EXCEPT ![r].pc = "awaitFetch",
                          ![r].sent = UpstreamBody(reqs[r])]
  /\ upstreamCalls' = upstreamCalls + 2
  /\ UNCHANGED <<clock, store, upstreamOk, crud, aside>>

\* routes.ts:206-216: the upstream call is issued.
ChatFetch(r) ==
  /\ reqs[r].pc = "awaitCreateUser"
  /\ reqs' = [reqs EXCEPT ![r].pc = "awaitFetch",
                          ![r].sent = UpstreamBody(reqs[r])]
  /\ upstreamCalls' = upstreamCalls + 1
  /\ UNCHANGED <<clock, store, upstreamOk, crud, aside>>

\* routes.ts:206, 235-238: fetch rejects (transport failure).
FetchRejects(r) ==
  /\ reqs[r].pc = "awaitFetch"
  /\ reqs' = [reqs EXCEPT ![r].pc = "done", ![r].branch = "error",
                          ![r].response = [NoResponse EXCEPT !.status = 500]]
  /\ UNCHANGED <<clock, store, upstreamCalls, upstreamOk, crud, aside>>

FetchNotOk_Rollback(r) ==
  /\ reqs[r].pc = "awaitFetch"
  /\ reqs' = [reqs EXCEPT ![r].pc = "done", ![r].branch = "error",
                          ![r].response = [NoResponse EXCEPT !.status = 500]]
  /\ messages' = SelectSeqBy(messages,
                    {m \in Range(messages) : m.id # reqs[r].userMessage.id})
  /\ UNCHANGED <<clock, currentId, conversations, agentStatuses, vectorDocuments,
                 upstreamCalls, upstreamOk, crud, aside>>

\* routes.ts:217-219: the backend answers with a non-success status.
FetchNotOk(r) ==
  /\ reqs[r].pc = "awaitFetch"
  /\ reqs' = [reqs EXCEPT ![r].pc = "done", ![r].branch = "error",
                          ![r].response = [NoResponse EXCEPT !.status = 500]]
  /\ UNCHANGED <<clock, store, upstreamCalls, upstreamOk, crud, aside>>

\* routes.ts:217-220: the backend answers 2xx; the body is being read.
FetchOk(r) ==
  /\ reqs[r].pc = "awaitFetch"
  /\ reqs' = [reqs EXCEPT ![r].pc = "awaitJson"]
  /\ upstreamOk' = upstreamOk + 1
  /\ UNCHANGED <<clock, store, upstreamCalls, crud, aside>>

JsonRejects_Unhandled(r) ==
  /\ reqs[r].pc = "awaitJson"
  /\ reqs' = [reqs EXCEPT ![r].pc = "rejected"]
  /\ UNCHANGED <<clock, store, upstreamCalls, upstreamOk, crud, aside>>

\* routes.ts:220, 235-238: the body is not JSON.
JsonRejects(r) ==
  /\ reqs[r].pc = "awaitJson"
  /\ reqs' = [reqs EXCEPT ![r].pc = "done", ![r].branch = "error",
                          ![r].response = [NoResponse EXCEPT !.status = 500]]
  /\ UNCHANGED <<clock, store, upstreamCalls, upstreamOk, crud, aside>>

JsonOk_RequestType(r, backendData) ==
  /\ reqs[r].pc = "awaitJson"
  /\ LET q == reqs[r]
         aiMessage ==
           NewMessage(currentId,
             [conversationId |-> ConversationOrDefault(q.conversationId),
              content |-> backendData.response, role |-> "assistant",
              messageType |-> q.messageType, metadata |-> backendData.metadata,
              agentUsed |-> backendData.agent_used], clock)
     IN /\ IdBudget(1)
        /\ messages' = Append(messages, aiMessage)
        /\ currentId' = currentId + 1
        /\ reqs' = [reqs EXCEPT ![r] =
             [q EXCEPT !.pc = "awaitCreateAi", !.backendData = backendData,
                !.response.aiMessage = aiMessage]]
  /\ UNCHANGED <<clock, conversations, agentStatuses, vectorDocuments, upstreamCalls, upstreamOk, crud, aside>>

\* routes.ts:220-229: the body arrives and the assistant message is stored.
JsonOk(r, backendData) ==
  /\ reqs[r].pc = "awaitJson"
  /\ LET q == reqs[r]
         aiMessage ==
           NewMessage(currentId,
             [conversationId |-> ConversationOrDefault(q.conversationId),
              content |-> backendData.response, role |-> "assistant",
              messageType |-> "text", metadata |-> backendData.metadata,
              agentUsed |-> backendData.agent_used], clock)
     IN /\ IdBudget(1)
        /\ messages' = Append(messages, aiMessage)
        /\ currentId' = currentId + 1
        /\ reqs' = [reqs EXCEPT ![r] =
             [q EXCEPT !.pc = "awaitCreateAi", !.backendData = backendData,
                !.response.aiMessage = aiMessage]]
  /\ UNCHANGED <<clock, conversations, agentStatuses, vectorDocuments, upstreamCalls, upstreamOk, crud, aside>>

ChatRespond_Touch(r) ==
  /\ reqs[r].pc = "awaitCreateAi"
  /\ reqs' = [reqs EXCEPT ![r].pc = "done", ![r].branch = "fresh",
        ![r].response =
          [status |-> 200, userMessage |-> reqs[r].userMessage,
           aiMessage |-> reqs[r].response.aiMessage,
           metadata |-> reqs[r].backendData.metadata]]
  /\ conversations' =
       updateConversation(conversations,
         ConversationOrDefault(reqs[r].conversationId), [title |-> Undefined], clock)
  /\ UNCHANGED <<clock, currentId, messages, agentStatuses, vectorDocuments,
                 upstreamCalls, upstreamOk, crud, aside>>

\* routes.ts:230-234
ChatRespond(r) ==
  /\ reqs[r].pc = "awaitCreateAi"
  /\ reqs' = [reqs EXCEPT ![r].pc = "done", ![r].branch = "fresh",
        ![r].response =
          [status |-> 200, userMessage |-> reqs[r].userMessage,
           aiMessage |-> reqs[r].response.aiMessage,
           metadata |-> reqs[r].backendData.metadata]]
  /\ UNCHANGED <<clock, store, upstreamCalls, upstreamOk, crud, aside>>

CreateConversation_Serial(title) ==
  /\ IdBudget(1)
  /\ conversations' =
       createConversation(conversations, Len(conversations) + 1, title, clock)
  /\ currentId' = currentId + 1
  /\ UNCHANGED <<clock, messages, agentStatuses, vectorDocuments, reqs,
                 upstreamCalls, upstreamOk, crud, aside>>

\* routes.ts:123-131 with storage.ts:84-95 (the body is {title}).
CreateConversation(title) ==
  /\ IdBudget(1)
  /\ conversations' = createConversation(conversations, currentId, title, clock)
  /\ currentId' = currentId + 1
  /\ UNCHANGED <<clock, messages, agentStatuses, vectorDocuments, reqs,
                 upstreamCalls, upstreamOk, crud, aside>>

\* storage.ts:107-115: deleteConversation has no await inside; it runs to its
\* end inside the call.
deleteConversation(id) ==
  /\ conversations' = RemoveConversation(conversations, id)
  /\ messages' = CascadeDelete(messages, id)

\* routes.ts:133-136: DELETE /api/conversations/:id calls deleteConversation
\* and awaits the returned promise.
DeleteStart(id) ==
  /\ delReq.pc \in {"idle", "done"}
  /\ deleteConversation(id)
  /\ delReq' = [pc |-> "awaitDelete", id |-> id, status |-> 0]
  /\ UNCHANGED <<clock, currentId, agentStatuses, vectorDocuments, reqs,
                 upstreamCalls, upstreamOk, getReq, aside>>

\* routes.ts:137
DeleteRespond ==
  /\ delReq.pc = "awaitDelete"
  /\ delReq' = [delReq EXCEPT !.pc = "done", !.status = 204]
  /\ UNCHANGED <<clock, store, reqs, upstreamCalls, upstreamOk, getReq, aside>>

\* routes.ts:110-113: GET /api/conversations/:id reads the record and awaits.
GetConversationStart(id) ==
  /\ getReq.pc \in {"idle", "done"}
  /\ getReq' = [pc |-> "awaitGet", id |-> id,
                conversation |-> getConversation(conversations, id), status |-> 0]
  /\ UNCHANGED <<clock, store, reqs, upstreamCalls, upstreamOk, delReq, aside>>

\* routes.ts:114-117
GetConversationRespond ==
  /\ getReq.pc = "awaitGet"
  /\ getReq' = [getReq EXCEPT !.pc = "done",
                  !.status = IF getReq.conversation = NoConversation THEN 404 ELSE 200]
  /\ UNCHANGED <<clock, store, reqs, upstreamCalls, upstreamOk, delReq, aside>>

PostMessage_Dedup(conversationId, content, role, messageType) ==
  /\ IF \/ content = Undefined
        \/ \E i \in 1..Len(messages) :
             /\ messages[i].conversationId = conversationId
             /\ IsDuplicate(messages[i], content, clock)
     THEN UNCHANGED <<currentId, messages>>
     ELSE /\ IdBudget(1)
          /\ messages' = createMessage(messages, currentId,
                 [conversationId |-> conversationId, content |-> content,
                  role |-> role, messageType |-> messageType,
                  metadata |-> Undefined, agentUsed |-> Undefined], clock)
          /\ currentId' = currentId + 1
  /\ UNCHANGED <<clock, conversations, agentStatuses, vectorDocuments, reqs,
                 upstreamCalls, upstreamOk, crud, aside>>

\* routes.ts:154-166 with storage.ts:128-139: POST /api/conversations/:id/messages;
\* a body without content fails the schema and stores nothing.
PostMessage(conversationId, content, role, messageType) ==
  /\ IF content = Undefined
     THEN UNCHANGED <<currentId, messages>>
     ELSE /\ IdBudget(1)
          /\ messages' = createMessage(messages, currentId,
                 [conversationId |-> conversationId, content |-> content,
                  role |-> role, messageType |-> messageType,
                  metadata |-> Undefined, agentUsed |-> Undefined], clock)
          /\ currentId' = currentId + 1
  /\ UNCHANGED <<clock, conversations, agentStatuses, vectorDocuments, reqs,
                 upstreamCalls, upstreamOk, crud, aside>>

\* storage.ts:171-177: the record the create branch of the upsert stores.
NewAgentStatus(id, insertAgentStatus, now) ==
  [id |-> id, agentName |-> insertAgentStatus.agentName,
   status |-> insertAgentStatus.status, lastActivity |-> now,
   metadata |-> OrNull(insertAgentStatus.metadata)]

CreateOrUpdateAgentStatus_FreshId(insertAgentStatus) ==
  /\ IdBudget(1)
  /\ agentStatuses' =
       MapSet(agentStatuses, insertAgentStatus.agentName,
              NewAgentStatus(currentId, insertAgentStatus, clock))
  /\ currentId' = currentId + 1
  /\ storageCall' = [op |-> "createOrUpdateAgentStatus",
                     name |-> insertAgentStatus.agentName, id |-> 0, threw |-> Null, 
                     branch |-> "create"]
  /\ UNCHANGED <<clock, messages, conversations, vectorDocuments, reqs,
                 upstreamCalls, upstreamOk, crud, proxyReqs, returned>>

\* storage.ts:164-181: createOrUpdateAgentStatus, called directly.
CreateOrUpdateAgentStatus(insertAgentStatus) ==
  /\ IF MapHas(agentStatuses, insertAgentStatus.agentName)
     THEN /\ agentStatuses' =
               MapSet(agentStatuses, insertAgentStatus.agentName,
                 [SpreadAgentStatus(
                    MapGet(agentStatuses, insertAgentStatus.agentName),
                    insertAgentStatus)
                  EXCEPT !.lastActivity = clock])
          /\ UNCHANGED currentId
     ELSE /\ IdBudget(1)
          /\ agentStatuses' =
               MapSet(agentStatuses, insertAgentStatus.agentName,
                      NewAgentStatus(currentId, insertAgentStatus, clock))
          /\ currentId' = currentId + 1
  /\ storageCall' = [op |-> "createOrUpdateAgentStatus",
                     name |-> insertAgentStatus.agentName, id |-> 0, threw |-> Null, 
                     branch |-> IF MapHas(agentStatuses, insertAgentStatus.agentName)
                                THEN "update" ELSE "create"]
  /\ UNCHANGED <<clock, messages, conversations, vectorDocuments, reqs,
                 upstreamCalls, upstreamOk, crud, proxyReqs, returned>>

UpdateAgentStatus_Upsert(agentName, updates) ==
  /\ IF MapHas(agentStatuses, agentName)
     THEN /\ agentStatuses' =
               MapSet(agentStatuses, agentName,
                 [SpreadAgentStatus(MapGet(agentStatuses, agentName), updates)
                  EXCEPT !.lastActivity = clock])
          /\ UNCHANGED currentId
     ELSE /\ IdBudget(1)
          /\ agentStatuses' =
               MapSet(agentStatuses, agentName,
                 NewAgentStatus(currentId,
                   [agentName |-> agentName, status |-> updates.status,
                    metadata |-> updates.metadata], clock))
          /\ currentId' = currentId + 1
  /\ storageCall' = [op |-> "updateAgentStatus", name |-> agentName, id |-> 0,
                     threw |-> Null, branch |-> Null]
  /\ UNCHANGED <<clock, messages, conversations, vectorDocuments, reqs,
                 upstreamCalls, upstreamOk, crud, proxyReqs, returned>>

\* storage.ts:183-191: updateAgentStatus, called directly; the record is
\* stored under the key it was found under.
UpdateAgentStatus(agentName, updates) ==
  /\ IF MapHas(agentStatuses, agentName)
     THEN /\ agentStatuses' =
               MapSet(agentStatuses, agentName,
                 [SpreadAgentStatus(MapGet(agentStatuses, agentName), updates)
                  EXCEPT !.lastActivity = clock])
          /\ storageCall' = [op |-> "updateAgentStatus", name |-> agentName,
                             id |-> 0, threw |-> Null, branch |-> Null]
     ELSE /\ UNCHANGED agentStatuses
          /\ storageCall' = [op |-> "updateAgentStatus", name |-> agentName,
                             id |-> 0, threw |-> "Agent status not found", branch |-> Null]
  /\ UNCHANGED <<clock, currentId, messages, conversations, vectorDocuments, reqs,
                 upstreamCalls, upstreamOk, crud, proxyReqs, returned>>

\* storage.ts:97-105: updateConversation, called directly.
UpdateConversation(id, updates) ==
  /\ IF getConversation(conversations, id) # NoConversation
     THEN /\ conversations' = updateConversation(conversations, id, updates, clock)
          /\ storageCall' = [op |-> "updateConversation", name |-> Null,
                             id |-> id, threw |-> Null, branch |-> Null]
     ELSE /\ UNCHANGED conversations
          /\ storageCall' = [op |-> "updateConversation", name |-> Null,
                             id |-> id, threw |-> "Conversation not found", branch |-> Null]
  /\ UNCHANGED <<clock, currentId, messages, agentStatuses, vectorDocuments, reqs,
                 upstreamCalls, upstreamOk, crud, proxyReqs, returned>>

\* storage.ts:202-213: createVectorDocument, called directly.
CreateVectorDocument(insertVectorDocument) ==
  /\ IdBudget(1)
  /\ vectorDocuments' =
       createVectorDocument(vectorDocuments, currentId, insertVectorDocument, clock)
  /\ currentId' = currentId + 1
  /\ storageCall' = [op |-> "createVectorDocument", name |-> Null,
                     id |-> currentId, threw |-> Null, branch |-> Null]
  /\ UNCHANGED <<clock, messages, conversations, agentStatuses, reqs,
                 upstreamCalls, upstreamOk, crud, proxyReqs, returned>>

DeleteVectorDocument_ReleaseId(id) ==
  /\ vectorDocuments' = deleteVectorDocument(vectorDocuments, id)
  /\ currentId' = IF id = currentId - 1 THEN id ELSE currentId
  /\ storageCall' = [op |-> "deleteVectorDocument", name |-> Null, id |-> id,
                     threw |-> Null, branch |-> Null]
  /\ UNCHANGED <<clock, messages, conversations, agentStatuses, reqs,
                 upstreamCalls, upstreamOk, crud, proxyReqs, returned>>

\* storage.ts:215-217: deleteVectorDocument, called directly.
DeleteVectorDocument(id) ==
  /\ vectorDocuments' = deleteVectorDocument(vectorDocuments, id)
  /\ storageCall' = [op |-> "deleteVectorDocument", name |-> Null, id |-> id,
                     threw |-> Null, branch |-> Null]
  /\ UNCHANGED <<clock, currentId, messages, conversations, agentStatuses, reqs,
                 upstreamCalls, upstreamOk, crud, proxyReqs, returned>>

\* storage.ts:80-82: getConversation, called directly.
GetConversation(id) ==
  /\ returned' = [op |-> "getConversation", key |-> id,
                  value |-> getConversation(conversations, id), threw |-> Null]
  /\ UNCHANGED <<clock, store, reqs, upstreamCalls, upstreamOk, crud, proxyReqs, storageCall>>

\* storage.ts:124-126: getMessage, called directly.
GetMessage(id) ==
  /\ returned' = [op |-> "getMessage", key |-> id,
                  value |-> getMessage(messages, id), threw |-> Null]
  /\ UNCHANGED <<clock, store, reqs, upstreamCalls, upstreamOk, crud, proxyReqs, storageCall>>

\* storage.ts:160-162: getAgentStatus, called directly.
GetAgentStatus(agentName) ==
  /\ returned' = [op |-> "getAgentStatus", key |-> agentName,
                  value |-> getAgentStatus(agentStatuses, agentName),
                  threw |-> Null]
  /\ UNCHANGED <<clock, store, reqs, upstreamCalls, upstreamOk, crud, proxyReqs, storageCall>>

\* storage.ts:198-200: getVectorDocument, called directly.
GetVectorDocument(id) ==
  /\ returned' = [op |-> "getVectorDocument", key |-> id,
                  value |-> getVectorDocument(vectorDocuments, id), threw |-> Null]
  /\ UNCHANGED <<clock, store, reqs, upstreamCalls, upstreamOk, crud, proxyReqs, storageCall>>

\* storage.ts:141-149: updateMessage, called directly.
UpdateMessage(id, updates) ==
  /\ IF getMessage(messages, id) # NullMessage
     THEN /\ messages' = updateMessage(messages, id, updates, clock)
          /\ storageCall' = [op |-> "updateMessage", name |-> Null, id |-> id,
                             threw |-> Null, branch |-> Null]
     ELSE /\ UNCHANGED messages
          /\ storageCall' = [op |-> "updateMessage", name |-> Null, id |-> id,
                             threw |-> "Message not found", branch |-> Null]
  /\ UNCHANGED <<clock, currentId, conversations, agentStatuses, vectorDocuments,
                 reqs, upstreamCalls, upstreamOk, crud, proxyReqs, returned>>

DeleteMessage_Strict(id) ==
  /\ messages' = deleteMessage(messages, id)
  /\ storageCall' = [op |-> "deleteMessage", name |-> Null, id |-> id,
                     threw |-> IF getMessage(messages, id) = NullMessage
                               THEN "Message not found" ELSE Null,
                     branch |-> Null]
  /\ UNCHANGED <<clock, currentId, conversations, agentStatuses, vectorDocuments,
                 reqs, upstreamCalls, upstreamOk, crud, proxyReqs, returned>>

\* storage.ts:151-153: deleteMessage, called directly.
DeleteMessage(id) ==
  /\ messages' = deleteMessage(messages, id)
  /\ storageCall' = [op |-> "deleteMessage", name |-> Null, id |-> id,
                     threw |-> Null, branch |-> Null]
  /\ UNCHANGED <<clock, currentId, conversations, agentStatuses, vectorDocuments,
                 reqs, upstreamCalls, upstreamOk, crud, proxyReqs, returned>>

\* storage.ts:74-78: getConversations, called directly.
GetConversations ==
  /\ returned' = [op |-> "getConversations", key |-> 0,
                  value |-> getConversations(conversations), threw |-> Null]
  /\ UNCHANGED <<clock, store, reqs, upstreamCalls, upstreamOk, crud, proxyReqs, storageCall>>

\* routes.ts:48-52 and 76: the request the handler sends upstream.
ProxiedRequest(route, method) ==
  IF route = AgentsStatusRoute
  THEN [method |-> method, body |-> IF method = "POST" THEN "json" ELSE Undefined]
  ELSE [method |-> "GET", body |-> Undefined]

\* routes.ts:63-70 and 87-96: the payload of the catch block.
FallbackPayload(route, now) ==
  IF route = AgentsStatusRoute
  THEN [i \in 1..Len(fallbackAgents) |->
          [id |-> i, agentName |-> fallbackAgents[i], status |-> "ready",
           lastActivity |-> now, metadata |-> Null]]
  ELSE [status |-> "partial", timestamp |-> now, agents |-> <<>>,
        metrics |-> [vectorDBSize |-> "Unknown", ollamaStatus |-> "disconnected",
                     responseTime |-> "Unknown"]]

\* routes.ts:46-52, 74-76: a request arrives on a proxied route and the
\* upstream call is issued.
ProxyStart(route, method) ==
  /\ proxyReqs[route].pc \in {"idle", "done"}
  /\ proxyReqs' = [proxyReqs EXCEPT ![route] =
        [IdleProxy(route) EXCEPT !.pc = "awaitFetch", !.method = method,
           !.sent = ProxiedRequest(route, method)]]
  /\ UNCHANGED <<clock, store, reqs, upstreamCalls, upstreamOk, crud, storageCall, returned>>

ProxyFallback_Error(route) ==
  proxyReqs' = [proxyReqs EXCEPT ![route].pc = "done", ![route].status = 500,
                  ![route].kind = "error"]

\* routes.ts:60-71, 84-97: res.json(fallback) in the catch block.
ProxyFallback(route) ==
  proxyReqs' = [proxyReqs EXCEPT ![route].pc = "done", ![route].status = 200,
                  ![route].kind = "fallback",
                  ![route].body = FallbackPayload(route, clock)]

\* routes.ts:48, 76: fetch rejects (the backend is unreachable).
ProxyFetchRejects(route) ==
  /\ proxyReqs[route].pc = "awaitFetch"
  /\ ProxyFallback(route)
  /\ UNCHANGED <<clock, store, reqs, upstreamCalls, upstreamOk, crud, storageCall, returned>>

\* routes.ts:54-56, 78-80: the backend answers with a non-success status.
ProxyFetchNotOk(route) ==
  /\ proxyReqs[route].pc = "awaitFetch"
  /\ ProxyFallback(route)
  /\ UNCHANGED <<clock, store, reqs, upstreamCalls, upstreamOk, crud, storageCall, returned>>

\* routes.ts:54-58, 78-82: the backend answers 2xx; the body is being read.
ProxyFetchOk(route) ==
  /\ proxyReqs[route].pc = "awaitFetch"
  /\ proxyReqs' = [proxyReqs EXCEPT ![route].pc = "awaitJson"]
  /\ UNCHANGED <<clock, store, reqs, upstreamCalls, upstreamOk, crud, storageCall, returned>>

\* routes.ts:58, 82: the body is not JSON.
ProxyJsonRejects(route) ==
  /\ proxyReqs[route].pc = "awaitJson"
  /\ ProxyFallback(route)
  /\ UNCHANGED <<clock, store, reqs, upstreamCalls, upstreamOk, crud, storageCall, returned>>

ProxyJsonOk_Sync(route, data) ==
  /\ proxyReqs[route].pc = "awaitJson"
  /\ proxyReqs' = [proxyReqs EXCEPT ![route].pc = "done", ![route].status = 200,
                     ![route].kind = "data", ![route].body = data]
  /\ agentStatuses' =
       IF route = AgentsStatusRoute
       THEN MapSet(agentStatuses, data[1].agentName, data[1])
       ELSE agentStatuses
  /\ UNCHANGED <<clock, currentId, messages, conversations, vectorDocuments,
                 reqs, upstreamCalls, upstreamOk, crud, storageCall, returned>>

\* routes.ts:58-59, 82-83: the backend's payload is passed on.
ProxyJsonOk(route, data) ==
  /\ proxyReqs[route].pc = "awaitJson"
  /\ proxyReqs' = [proxyReqs EXCEPT ![route].pc = "done", ![route].status = 200,
                     ![route].kind = "data", ![route].body = data]
  /\ UNCHANGED <<clock, store, reqs, upstreamCalls, upstreamOk, crud, storageCall, returned>>

\* One step of some /api/chat handler, for bodies and backend answers drawn
\* from the given sets.
ChatStep(Slots, Msgs, Convs, Types, Payloads) ==
  \/ \E r \in Slots, m \in Msgs, c \in Convs, t \in Types : ChatStart(r, m, c, t)
  \/ \E r \in Slots : ChatCheck(r)
  \/ \E r \in Slots : ChatFetch(r)
  \/ \E r \in Slots : FetchRejects(r)
  \/ \E r \in Slots : FetchNotOk(r)
  \/ \E r \in Slots : FetchOk(r)
  \/ \E r \in Slots : JsonRejects(r)
  \/ \E r \in Slots, d \in Payloads : JsonOk(r, d)
  \/ \E r \in Slots : ChatRespond(r)

\* The chat protocol: concurrent /api/chat requests against the clock.
Next ==
  \/ Tick
  \/ ChatStep(Requests, ChatMessages \cup InvalidMessages, DedupConversationIds,
              {Undefined}, BackendPayloads)

Spec == Init /\ [][Next]_vars

\* The conversation and message routes over the store.
StoreConversationIds == {DefaultConversation, 7}

NextStore ==
  \/ Tick
  \/ CreateConversation("t")
  \/ \E id \in StoreConversationIds : DeleteStart(id)
  \/ DeleteRespond
  \/ \E id \in StoreConversationIds : GetConversationStart(id)
  \/ GetConversationRespond
  \/ \E c \in StoreConversationIds, m \in {"hello", Undefined},
        role \in {"user", "assistant"} : PostMessage(c, m, role, "text")

SpecStore == Init /\ [][NextStore]_vars

\* The agent status registry, called directly.
AgentNames == {"Vision", "Indexer"}
AgentStatusValues == {"ready", "error"}

AgentInserts ==
  {[agentName |-> n, status |-> st, metadata |-> Undefined] :
     n \in AgentNames, st \in AgentStatusValues}

\* Partial<InsertAgentStatus>: any subset of the fields.
AgentPatches ==
  {[agentName |-> n, status |-> st, metadata |-> Undefined] :
     n \in AgentNames \cup {Undefined}, st \in AgentStatusValues \cup {Undefined}}

NextAgents ==
  \/ Tick
  \/ \E ins \in AgentInserts : CreateOrUpdateAgentStatus(ins)
  \/ \E n \in AgentNames, updates \in AgentPatches : UpdateAgentStatus(n, updates)

SpecAgents == Init /\ [][NextAgents]_vars

\* The proxied routes.
NextProxy ==
  \/ Tick
  \/ \E route \in ProxyRoutes, method \in ProxyMethods : ProxyStart(route, method)
  \/ \E route \in ProxyRoutes : ProxyFetchRejects(route)
  \/ \E route \in ProxyRoutes : ProxyFetchNotOk(route)
  \/ \E route \in ProxyRoutes : ProxyFetchOk(route)
  \/ \E route \in ProxyRoutes : ProxyJsonRejects(route)
  \/ \E route \in ProxyRoutes :
        \E data \in BackendProxyPayloads(route) : ProxyJsonOk(route, data)

SpecProxy == Init /\ [][NextProxy]_vars

\* The identifiers handed out after the bootstrap.
NewIds == (InitialId + Len(defaultAgents))..MaxId

VectorDocumentInserts ==
  {[title |-> "doc", content |-> "text", filePath |-> Undefined,
    documentType |-> "pdf"]}

ConversationPatches == {[title |-> "u"], [title |-> Undefined]}

\* Creations and deletions in the four families of records.
NextIds ==
  \/ CreateConversation("t")
  \/ \E id \in NewIds : DeleteStart(id)
  \/ DeleteRespond
  \/ \E id \in NewIds : PostMessage(id, "hello", "user", "text")
  \/ CreateOrUpdateAgentStatus(
        [agentName |-> "Indexer", status |-> "ready", metadata |-> Undefined])
  \/ \E doc \in VectorDocumentInserts : CreateVectorDocument(doc)
  \/ \E id \in NewIds : DeleteVectorDocument(id)

SpecIds == Init /\ [][NextIds]_vars

\* The life of conversation records: created, updated, deleted.
NextConversations ==
  \/ Tick
  \/ CreateConversation("t")
  \/ \E id \in NewIds, updates \in ConversationPatches : UpdateConversation(id, updates)
  \/ \E id \in NewIds : DeleteStart(id)
  \/ DeleteRespond

SpecConversations == Init /\ [][NextConversations]_vars

\* Conversations created, touched and deleted, and the listing read.
NextListing ==
  \/ Tick
  \/ CreateConversation("t")
  \/ \E id \in NewIds : UpdateConversation(id, [title |-> Undefined])
  \/ \E id \in NewIds : DeleteStart(id)
  \/ DeleteRespond
  \/ GetConversations

SpecListing == Init /\ [][NextListing]_vars

\* The identifiers this exploration hands out; the later ones stay unknown.
KeyBudget == currentId < InitialId + Len(defaultAgents) + MaxKeyRecords

\* Reads and deletions by key, on keys that are stored and keys that are not.
NextKeys ==
  \/ KeyBudget /\ CreateConversation("t")
  \/ \E id \in NewIds :
        KeyBudget /\ PostMessage(id, "hello", "user", "text")
  \/ \E doc \in VectorDocumentInserts :
        KeyBudget /\ CreateVectorDocument(doc)
  \/ \E id \in NewIds : GetConversation(id)
  \/ \E id \in NewIds : GetMessage(id)
  \/ \E n \in AgentNames : GetAgentStatus(n)
  \/ \E id \in NewIds : GetVectorDocument(id)
  \/ \E id \in NewIds : DeleteStart(id)
  \/ DeleteRespond
  \/ \E id \in NewIds : DeleteMessage(id)
  \/ \E id \in NewIds : DeleteVectorDocument(id)

SpecKeys == Init /\ [][NextKeys]_vars

\* One /api/chat client next to the clients polling the two proxied routes.
NextPolling ==
  \/ Tick
  \/ ChatStep({1}, {"hello", ""}, {Absent}, {Undefined}, BackendPayloads)
  \/ \E route \in ProxyRoutes, method \in {"GET", "POST"} : ProxyStart(route, method)
  \/ \E route \in ProxyRoutes : ProxyFetchRejects(route)
  \/ \E route \in ProxyRoutes : ProxyFetchNotOk(route)
  \/ \E route \in ProxyRoutes : ProxyFetchOk(route)
  \/ \E route \in ProxyRoutes : ProxyJsonRejects(route)
  \/ \E route \in ProxyRoutes :
        \E data \in BackendProxyPayloads(route) : ProxyJsonOk(route, data)

SpecPolling == Init /\ [][NextPolling]_vars

\* One /api/chat client sending bodies with and without conversationId and
\* messageType.
NextBodies ==
  \/ Tick
  \/ ChatStep({1}, {"hello", ""}, ChatConversationIds, ChatMessageTypes,
              BackendPayloads)

SpecBodies == Init /\ [][NextBodies]_vars

\* Messages that share all but one of conversation, role and content with a
\* /api/chat body {message: "hello"}, and the one that shares all three.
ScopeSeeds ==
  { [conversationId |-> DefaultConversation, content |-> "hello", role |-> "user"],
    [conversationId |-> 7, content |-> "hello", role |-> "user"],
    [conversationId |-> DefaultConversation, content |-> "Hello", role |-> "user"],
    [conversationId |-> DefaultConversation, content |-> "hello ", role |-> "user"],
    [conversationId |-> DefaultConversation, content |-> "hello", role |-> "assistant"],
    [conversationId |-> DefaultConversation, content |-> "hello", role |-> "system"] }

PostedBudget == currentId < InitialId + Len(defaultAgents) + MaxPosted

\* One /api/chat client over a history written through
\* POST /api/conversations/:id/messages.
NextScope ==
  \/ Tick
  \/ ChatStep({1}, {"hello", ""}, {Absent}, {Undefined},
              {[response |-> "hello", metadata |-> Undefined, agent_used |-> Undefined]})
  \/ \E seed \in ScopeSeeds :
        /\ PostedBudget
        /\ PostMessage(seed.conversationId, seed.content, seed.role, "text")

SpecScope == Init /\ [][NextScope]_vars

\* /api/chat clients on a server where a conversation may have been created.
NextFrame ==
  \/ Tick
  \/ conversations = <<>> /\ messages = <<>> /\ CreateConversation("t")
  \/ ChatStep(Requests, {"hello", ""}, ChatConversationIds, {Undefined},
              BackendPayloads)

SpecFrame == Init /\ [][NextFrame]_vars

\* Partial<InsertMessage>: the patch carries none, one or two of the fields.
NoPatch ==
  [conversationId |-> Absent, content |-> Undefined, role |-> Undefined,
   messageType |-> Undefined, metadata |-> Undefined, agentUsed |-> Undefined]

MessagePatches ==
  { NoPatch,
    [NoPatch EXCEPT !.content = "edited"],
    [NoPatch EXCEPT !.metadata = "md", !.agentUsed = "Vision"],
    [NoPatch EXCEPT !.conversationId = 8] }

\* The life of message records: created, patched, deleted.
NextMessages ==
  \/ Tick
  \/ KeyBudget /\ PostMessage(7, "hello", "user", "text")
  \/ \E id \in NewIds, updates \in MessagePatches : UpdateMessage(id, updates)
  \/ \E id \in NewIds : DeleteMessage(id)
  \/ \E c \in {7, 8} : DeleteStart(c)
  \/ DeleteRespond

SpecMessages == Init /\ [][NextMessages]_vars

\* DELETE /api/conversations/:id arriving while the upstream call of a
\* /api/chat turn for that conversation is pending.
DeleteDuringUpstream(id) ==
  /\ \E r \in Requests :
       /\ reqs[r].pc \in {"awaitFetch", "awaitJson"}
       /\ ConversationOrDefault(reqs[r].conversationId) = id
  /\ DeleteStart(id)

\* One /api/chat client and deletions of the conversation it writes to.
NextDelete ==
  \/ Tick
  \/ ChatStep({1}, {"hello", ""}, ChatConversationIds, {Undefined}, BackendPayloads)
  \/ \E id \in StoreConversationIds : DeleteDuringUpstream(id)
  \/ DeleteRespond

SpecDelete == Init /\ [][NextDelete]_vars

\* Identifiers a handler in flight will still draw if its turn is fresh and
\* the upstream answers.
IdsOwed(q) ==
  IF q.pc = "awaitGetMessages" THEN 2
  ELSE IF q.pc \in {"awaitCreateUser", "awaitFetch", "awaitJson"} THEN 1
  ELSE 0

RECURSIVE SumOwed(_)
SumOwed(n) == IF n = 0 THEN 0 ELSE IdsOwed(reqs[n]) + SumOwed(n - 1)

\* A request is admitted while the identifiers left cover it and every
\* handler in flight, so that no handler waits for an identifier.
AdmittedChatStart(r, message, conversationId, messageType) ==
  /\ IdBudget(SumOwed(MaxReq) + 2)
  /\ ChatStart(r, message, conversationId, messageType)

\* The handler's own continuations: the awaited store promise is resolved
\* and the event loop runs the continuation.
HandlerResumes(r) == ChatCheck(r) \/ ChatFetch(r) \/ ChatRespond(r)

\* The upstream call completes: fetch settles, then the body read settles.
UpstreamCompletes(r) ==
  \/ FetchRejects(r)
  \/ FetchNotOk(r)
  \/ FetchOk(r)
  \/ JsonRejects(r)
  \/ \E d \in BackendPayloads : JsonOk(r, d)

\* The chat protocol with its scheduling: a continuation that is ready runs;
\* nothing is assumed of the upstream.
NextLive ==
  \/ Tick
  \/ \E r \in Requests, m \in {"hello", ""} :
        AdmittedChatStart(r, m, Absent, Undefined)
  \/ \E r \in Requests : ChatCheck(r)
  \/ \E r \in Requests : ChatFetch(r)
  \/ \E r \in Requests : FetchRejects(r)
  \/ \E r \in Requests : FetchNotOk(r)
  \/ \E r \in Requests : FetchOk(r)
  \/ \E r \in Requests : JsonRejects(r)
  \/ \E r \in Requests, d \in BackendPayloads : JsonOk(r, d)
  \/ \E r \in Requests : ChatRespond(r)

SpecLive ==
  Init /\ [][NextLive]_vars /\ \A r \in Requests : WF_vars(HandlerResumes(r))

\* A client sends a body again only after it got the response to the one it
\* sent before: no two requests with the same message are in flight.
ResendChatStart(r, message, conversationId, messageType) ==
  /\ \A x \in Requests : reqs[x].pc \notin {"idle", "done"} => reqs[x].message # message
  /\ ChatStart(r, message, conversationId, messageType)

\* The chat protocol with clients that resend after the response.
NextResend ==
  \/ Tick
  \/ \E r \in Requests, m \in ChatMessages \cup InvalidMessages :
        ResendChatStart(r, m, Absent, Undefined)
  \/ \E r \in Requests : ChatCheck(r)
  \/ \E r \in Requests : ChatFetch(r)
  \/ \E r \in Requests : FetchRejects(r)
  \/ \E r \in Requests : FetchNotOk(r)
  \/ \E r \in Requests : FetchOk(r)
  \/ \E r \in Requests : JsonRejects(r)
  \/ \E r \in Requests, d \in BackendPayloads : JsonOk(r, d)
  \/ \E r \in Requests : ChatRespond(r)

SpecResend == Init /\ [][NextResend]_vars

\* ------------------------------------------------------------ properties
ConvOf(q) == ConversationOrDefault(q.conversationId)

\* The handler has run its duplicate check.
PastCheck(q) ==
  \/ q.pc \in {"awaitCreateUser", "awaitFetch", "awaitJson", "awaitCreateAi"}
  \/ q.pc = "done" /\ q.branch # "invalid"

\* The handler stored a user message (fresh turn).
IsFresh(q) == PastCheck(q) /\ q.userMessage # NullMessage

\* The handler answered from the history (replay or pending).
IsResend(q) == q.pc = "done" /\ q.branch \in {"replay", "pending"}

\* The user message is stored and the upstream has not answered yet.
AwaitingUpstream(q) == q.pc \in {"awaitCreateUser", "awaitFetch", "awaitJson"}

SameConversationAndContent(q1, q2) ==
  ConvOf(q1) = ConvOf(q2) /\ q1.message = q2.message

Hist(q) == Range(q.recentMessages)

\* m is a user message with the request's content, younger than the window
\* when the request took its timestamp.
InWindow(m, q) ==
  /\ m.role = "user"
  /\ m.content = q.message
  /\ q.now - m.createdAt < WINDOW

PositionIn(m, seq) == CHOOSE i \in 1..Len(seq) : seq[i] = m

\* No assistant message stands behind u in the history.
NoAssistantAfter(u, seq) ==
  \A j \in 1..Len(seq) :
    j > PositionIn(u, seq) => seq[j].role # "assistant"

\* C1 (as claimed): once a fresh turn for (c, m) has stored its user message U
\* and its reply A, a later identical request inside the window answers with
\* exactly U and A, stores nothing and calls no upstream.
C1_DedupReplay ==
  \A r1, r2 \in Requests :
    LET q1 == reqs[r1]
        q2 == reqs[r2]
        U == q1.response.userMessage
        A == q1.response.aiMessage
    IN ( /\ r1 # r2
         /\ q1.pc = "done" /\ q1.branch = "fresh"
         /\ PastCheck(q2)
         /\ SameConversationAndContent(q1, q2)
         /\ U \in Hist(q2) /\ A \in Hist(q2)
         /\ q2.now - U.createdAt < WINDOW )
       => ( /\ q2.pc = "done" /\ q2.branch = "replay"
            /\ q2.response.userMessage = U
            /\ q2.response.aiMessage = A
            /\ q2.userMessage = NullMessage )

\* C2 (as claimed): while a request holds its stored user message U and waits
\* for the upstream, with no assistant message behind U, an identical request
\* inside the window answers {U, null, null} and stores nothing.
C2_DedupPending ==
  \A r1, r2 \in Requests :
    LET q1 == reqs[r1]
        q2 == reqs[r2]
        U == q1.userMessage
    IN ( /\ r1 # r2
         /\ AwaitingUpstream(q1)
         /\ PastCheck(q2)
         /\ SameConversationAndContent(q1, q2)
         /\ U \in Hist(q2)
         /\ NoAssistantAfter(U, q2.recentMessages)
         /\ q2.now - U.createdAt < WINDOW )
       => ( /\ q2.pc = "done"
            /\ q2.response =
                 [status |-> 200, userMessage |-> U, aiMessage |-> NullMessage,
                  metadata |-> Null]
            /\ q2.userMessage = NullMessage )

\* C2 (amended): the same, provided U is the first user message of the
\* conversation with that content inside the window; in every case the
\* identical request stores no message and reaches no upstream call.
C2_DedupPendingFirst ==
  \A r1, r2 \in Requests :
    LET q1 == reqs[r1]
        q2 == reqs[r2]
        U == q1.userMessage
    IN ( /\ r1 # r2
         /\ AwaitingUpstream(q1)
         /\ PastCheck(q2)
         /\ SameConversationAndContent(q1, q2)
         /\ U \in Hist(q2)
         /\ NoAssistantAfter(U, q2.recentMessages)
         /\ q2.now - U.createdAt < WINDOW )
       => ( /\ q2.pc = "done"
            /\ q2.userMessage = NullMessage
            /\ q2.response.status = 200
            /\ (\A m \in Hist(q2) :
                   InWindow(m, q2) =>
                     PositionIn(U, q2.recentMessages) <= PositionIn(m, q2.recentMessages))
               => q2.response =
                    [status |-> 200, userMessage |-> U,
                     aiMessage |-> NullMessage, metadata |-> Null] )

C2_Witness ==
  \E r1, r2 \in Requests :
    /\ r1 # r2
    /\ reqs[r1].pc = "awaitFetch"
    /\ reqs[r2].pc = "done" /\ reqs[r2].branch = "pending"
    /\ reqs[r2].response.userMessage = reqs[r1].userMessage
    /\ reqs[r2].response.aiMessage = NullMessage
    /\ upstreamCalls = 1
    /\ Len(messages) = 1

\* C3 (as claimed): no two stored user messages of one conversation with equal
\* content were created less than the window apart.
C3_AtMostOneUpstreamCall ==
  \A i, j \in 1..Len(messages) :
    ( /\ i < j
      /\ messages[i].role = "user" /\ messages[j].role = "user"
      /\ messages[i].conversationId = messages[j].conversationId
      /\ messages[i].content = messages[j].content )
    => messages[j].createdAt - messages[i].createdAt >= WINDOW

\* C3 (amended): a request whose history read holds a user message with its
\* content inside the window stores nothing and calls no upstream; so two
\* identical requests less than the window apart both call the upstream only
\* when neither read the history after the other had stored its message.
C3_AtMostOneAfterPersist ==
  /\ \A r \in Requests :
       (PastCheck(reqs[r]) /\ \E m \in Hist(reqs[r]) : InWindow(m, reqs[r]))
       => (IsResend(reqs[r]) /\ reqs[r].userMessage = NullMessage)
  /\ \A r1, r2 \in Requests :
       LET q1 == reqs[r1]
           q2 == reqs[r2]
       IN ( /\ r1 # r2
            /\ IsFresh(q1) /\ IsFresh(q2)
            /\ SameConversationAndContent(q1, q2)
            /\ q2.userMessage.createdAt - q1.userMessage.createdAt < WINDOW
            /\ q1.userMessage.createdAt - q2.userMessage.createdAt < WINDOW )
          => (q1.userMessage \notin Hist(q2) /\ q2.userMessage \notin Hist(q1))

C3_Witness ==
  \E r1, r2 \in Requests :
    /\ r1 # r2
    /\ reqs[r1].pc = "done" /\ reqs[r1].branch = "error"
    /\ IsResend(reqs[r2])
    /\ reqs[r2].response.userMessage = reqs[r1].userMessage
    /\ reqs[r2].now - reqs[r1].userMessage.createdAt = WINDOW - 1
    /\ upstreamCalls = 1

\* C4: the duplicate check is decided on the history read before the await,
\* so two identical requests that both read before either stored both store
\* a user message and both call the upstream.
C4_BothPassTheCheck ==
  \A r1, r2 \in Requests :
    LET q1 == reqs[r1]
        q2 == reqs[r2]
    IN ( /\ r1 # r2
         /\ PastCheck(q1) /\ PastCheck(q2)
         /\ SameConversationAndContent(q1, q2)
         /\ \A m \in Hist(q1) : ~InWindow(m, q1)
         /\ \A m \in Hist(q2) : ~InWindow(m, q2) )
       => ( /\ IsFresh(q1) /\ IsFresh(q2)
            /\ q1.userMessage.id # q2.userMessage.id
            /\ q1.userMessage \in Range(messages)
            /\ q2.userMessage \in Range(messages)
            /\ (q1.pc # "awaitCreateUser" /\ q2.pc # "awaitCreateUser")
                 => upstreamCalls >= 2 )

C4_Witness ==
  \E r1, r2 \in Requests :
    /\ r1 # r2
    /\ reqs[r1].pc = "awaitFetch" /\ reqs[r2].pc = "awaitFetch"
    /\ SameConversationAndContent(reqs[r1], reqs[r2])
    /\ reqs[r1].recentMessages = <<>> /\ reqs[r2].recentMessages = <<>>
    /\ reqs[r1].userMessage.createdAt = reqs[r2].userMessage.createdAt
    /\ messages = <<reqs[r1].userMessage, reqs[r2].userMessage>>
    /\ upstreamCalls = 2

\* C5: a request is a fresh turn exactly when every user message with its
\* content in the history it read is at least the window old (30000 ms
\* included); one of age 29999 ms makes it a duplicate.
C5_WindowExpiry ==
  \A r \in Requests :
    LET q == reqs[r]
    IN PastCheck(q) =>
         /\ (\A m \in Hist(q) :
               (m.role = "user" /\ m.content = q.message)
                 => q.now - m.createdAt >= WINDOW)
            <=> IsFresh(q)
         /\ IsFresh(q) =>
              /\ q.userMessage.createdAt = q.now
              /\ q.userMessage.content = q.message
              /\ q.userMessage \in Range(messages)
              /\ q.userMessage \notin Hist(q)
         /\ (\E m \in Hist(q) :
               m.role = "user" /\ m.content = q.message
                 /\ q.now - m.createdAt = WINDOW - 1)
            => IsResend(q)

C5_Witness ==
  \E r \in Requests :
    /\ reqs[r].pc = "awaitFetch"
    /\ \E m \in Hist(reqs[r]) :
         /\ m.role = "user" /\ m.content = reqs[r].message
         /\ reqs[r].userMessage.createdAt - m.createdAt = WINDOW
    /\ upstreamCalls = 2

\* C6: when the upstream call of a fresh turn fails (rejected fetch, non-2xx
\* status, unreadable body) the handler answers 500, the stored user message
\* stays and no message is created or removed.
C6_UpstreamFailureNoRollback ==
  [][\A r \in Requests :
       (reqs[r].pc \in {"awaitFetch", "awaitJson"} /\ reqs'[r].pc = "done")
       => /\ reqs'[r].response.status = 500
          /\ reqs'[r].response.aiMessage = NullMessage
          /\ messages' = messages
          /\ currentId' = currentId
          /\ reqs[r].userMessage \in Range(messages')]_vars

C6_Witness ==
  \E r \in Requests :
    /\ reqs[r].pc = "done" /\ reqs[r].branch = "error"
    /\ reqs[r].response.status = 500
    /\ messages = <<reqs[r].userMessage>>
    /\ upstreamCalls = 1

\* C7: a request with an empty or absent message answers 400 and changes
\* neither the store nor the number of upstream calls.
C7_ValidationNoEffect ==
  [][\A r \in Requests, m \in InvalidMessages, c \in ChatConversationIds,
        t \in ChatMessageTypes :
       ChatStart(r, m, c, t)
       => /\ reqs'[r].pc = "done"
          /\ reqs'[r].response = [NoResponse EXCEPT !.status = 400]
          /\ reqs'[r].userMessage = NullMessage
          /\ store' = store
          /\ upstreamCalls' = upstreamCalls]_vars

C7_Witness ==
  \E r \in Requests :
    /\ reqs[r].pc = "done" /\ reqs[r].branch = "invalid"
    /\ reqs[r].response.status = 400
    /\ Len(messages) = 1
    /\ upstreamCalls = 1

\* C8 (as claimed): among several user messages with the content inside the
\* window, the one returned as userMessage has the greatest createdAt.
C8_MostRecentDuplicate ==
  \A r \in Requests :
    IsResend(reqs[r]) =>
      \A m \in Hist(reqs[r]) :
        InWindow(m, reqs[r]) => m.createdAt <= reqs[r].response.userMessage.createdAt

\* C8 (amended): the one returned is the first of them in the history, that
\* is the one with the smallest createdAt (the first stored among equals).
C8_EarliestDuplicate ==
  \A r \in Requests :
    LET q == reqs[r]
        D == q.response.userMessage
    IN IsResend(q) =>
         /\ D \in Hist(q) /\ InWindow(D, q)
         /\ \A m \in Hist(q) :
              InWindow(m, q) =>
                \/ D.createdAt < m.createdAt
                \/ D.createdAt = m.createdAt /\ D.id <= m.id

C8_Witness ==
  \E r \in Requests :
    /\ IsResend(reqs[r])
    /\ \E m \in Hist(reqs[r]) :
         /\ InWindow(m, reqs[r])
         /\ m.createdAt > reqs[r].response.userMessage.createdAt

\* C9: on a duplicate the reply returned is the assistant message with the
\* smallest createdAt among those strictly later than the duplicate (none:
\* aiMessage null), with that message's stored metadata; an assistant message
\* with the duplicate's own createdAt does not count.
C9_ReplySelection ==
  \A r \in Requests :
    LET q == reqs[r]
        D == q.response.userMessage
        later == {m \in Hist(q) : m.role = "assistant" /\ m.createdAt > D.createdAt}
    IN IsResend(q) =>
         IF later = {}
         THEN q.response.aiMessage = NullMessage /\ q.response.metadata = Null
         ELSE /\ q.response.aiMessage \in later
              /\ q.response.aiMessage.conversationId = ConvOf(q)
              /\ \A m \in later :
                   \/ q.response.aiMessage.createdAt < m.createdAt
                   \/ /\ q.response.aiMessage.createdAt = m.createdAt
                      /\ q.response.aiMessage.id <= m.id
              /\ q.response.metadata = q.response.aiMessage.metadata

C9_Witness ==
  \E r \in Requests :
    LET q == reqs[r]
        D == q.response.userMessage
    IN /\ q.pc = "done" /\ q.branch = "replay"
       /\ \E m \in Hist(q) : m.role = "assistant" /\ m.createdAt = D.createdAt
       /\ q.response.aiMessage.createdAt > D.createdAt
       /\ q.response.metadata = Null

\* C10: the step in which deleteConversation(id) runs leaves no conversation
\* and no message under id and leaves every other conversation and message
\* as it was; no step removes the conversation, or some of its messages,
\* and leaves a message of it behind.
C10_CascadeAtomic ==
  [][\A id \in StoreConversationIds :
       /\ DeleteStart(id) =>
            /\ getConversation(conversations', id) = NoConversation
            /\ getMessages(messages', id) = <<>>
            /\ \A m \in Range(messages') : m.conversationId # id
            /\ Range(messages') = {m \in Range(messages) : m.conversationId # id}
            /\ Range(conversations') = {c \in Range(conversations) : c.id # id}
            /\ \A other \in StoreConversationIds \ {id} :
                 /\ getMessages(messages', other) = getMessages(messages, other)
                 /\ getConversation(conversations', other)
                      = getConversation(conversations, other)
       /\ ( \/ /\ getConversation(conversations, id) # NoConversation
               /\ getConversation(conversations', id) = NoConversation
            \/ \E m \in Range(messages) :
                 m.conversationId = id /\ m \notin Range(messages') )
          => /\ getMessages(messages', id) = <<>>
             /\ getConversation(conversations', id) = NoConversation]_vars

C10_Witness ==
  /\ delReq.pc = "awaitDelete" /\ delReq.id = 7
  /\ getReq.pc = "done" /\ getReq.status = 200 /\ getReq.conversation.id = 7
  /\ conversations = <<>>
  /\ Len(messages) = 1
  /\ messages[1].conversationId = DefaultConversation
  /\ currentId = messages[1].id + 3

\* C11: for every conversation id c, getMessages(c) holds exactly the stored
\* messages whose conversationId is c, each once, in non-decreasing
\* createdAt order.
C11_OrderingInvariant ==
  \A c \in StoreConversationIds :
    LET listed == getMessages(messages, c)
    IN /\ \A i \in 1..Len(listed) :
            listed[i] \in Range(messages) /\ listed[i].conversationId = c
       /\ \A m \in Range(messages) :
            m.conversationId = c
              => Cardinality({i \in 1..Len(listed) : listed[i] = m}) = 1
       /\ Len(listed)
            = Cardinality({i \in 1..Len(messages) : messages[i].conversationId = c})
       /\ \A i, j \in 1..Len(listed) :
            i < j => listed[i].createdAt <= listed[j].createdAt

C11_Witness ==
  /\ Len(messages) = 3
  /\ messages[1].conversationId = 7
  /\ messages[2].conversationId = DefaultConversation
  /\ messages[3].conversationId = 7
  /\ messages[1].createdAt < messages[3].createdAt
  /\ getMessages(messages, 7) = <<messages[1], messages[3]>>
  /\ getMessages(messages, DefaultConversation) = <<messages[2]>>

\* The entries of the registry whose record carries the name.
Named(entries, name) == {i \in 1..Len(entries) : entries[i].value.agentName = name}

\* The entries of the registry stored under the key.
Keyed(entries, key) == {i \in 1..Len(entries) : entries[i].key = key}

\* C12 (as claimed): after any sequence of createOrUpdateAgentStatus and
\* updateAgentStatus calls, no two stored agent status records carry the
\* same agentName.
C12_AgentNameUnique ==
  \A i, j \in 1..Len(agentStatuses) :
    agentStatuses[i].value.agentName = agentStatuses[j].value.agentName => i = j

\* C13: createOrUpdateAgentStatus for a name that is registered (as it is
\* after a first call) leaves exactly one record under that name, with the
\* id it had, the given status and lastActivity at the time of this call,
\* draws no identifier and leaves every other record as it was.
C13_UpsertIdempotent ==
  [][\A ins \in AgentInserts :
       (CreateOrUpdateAgentStatus(ins) /\ MapHas(agentStatuses, ins.agentName))
       => LET before == MapGet(agentStatuses, ins.agentName)
              after == MapGet(agentStatuses', ins.agentName)
          IN /\ Cardinality(Keyed(agentStatuses', ins.agentName)) = 1
             /\ after.id = before.id
             /\ after.agentName = ins.agentName
             /\ after.status = ins.status
             /\ after.lastActivity = clock
             /\ currentId' = currentId
             /\ Len(agentStatuses') = Len(agentStatuses)
             /\ \A i \in 1..Len(agentStatuses) :
                  agentStatuses[i].key # ins.agentName
                    => agentStatuses'[i] = agentStatuses[i]
             /\ Named(agentStatuses, ins.agentName) \subseteq Keyed(agentStatuses, ins.agentName)
                  => Cardinality(Named(agentStatuses', ins.agentName)) = 1]_vars

C13_Witness ==
  /\ storageCall.op = "createOrUpdateAgentStatus"
  /\ storageCall.name = "Indexer"
  /\ storageCall.branch = "update"
  /\ MapGet(agentStatuses, "Indexer").id = InitialId + Len(defaultAgents)
  /\ MapGet(agentStatuses, "Indexer").lastActivity = WINDOW
  /\ currentId = InitialId + Len(defaultAgents) + 1
  /\ Cardinality(Named(agentStatuses, "Indexer")) = 1

\* C14: updateAgentStatus for a name that is not registered throws
\* 'Agent status not found' and leaves the whole store as it was, while
\* createOrUpdateAgentStatus for that name stores a record under it, with a
\* fresh identifier.
C14_StrictUpdate ==
  [][\A n \in AgentNames :
       ~MapHas(agentStatuses, n)
       => /\ \A updates \in AgentPatches :
               UpdateAgentStatus(n, updates)
               => /\ storageCall'.threw = "Agent status not found"
                  /\ store' = store
          /\ \A ins \in AgentInserts :
               (ins.agentName = n /\ CreateOrUpdateAgentStatus(ins))
               => /\ storageCall'.threw = Null
                  /\ MapHas(agentStatuses', n)
                  /\ MapGet(agentStatuses', n)
                       = [id |-> currentId, agentName |-> n, status |-> ins.status,
                          lastActivity |-> clock, metadata |-> Null]
                  /\ currentId' = currentId + 1]_vars

C14_Witness ==
  /\ storageCall.op = "updateAgentStatus"
  /\ storageCall.name = "Indexer"
  /\ storageCall.threw = "Agent status not found"
  /\ ~MapHas(agentStatuses, "Indexer")
  /\ Len(agentStatuses) = Len(defaultAgents)
  /\ currentId = InitialId + Len(defaultAgents)
  /\ clock = WINDOW

\* C15: whenever the proxied call fails (rejected fetch, non-success status,
\* unreadable body), /api/agents/status, for any method, answers 200 with
\* the roster QueryHandler, SemanticSearch, FallbackRAG, Summarizer, TTS,
\* Vision, each ready, and /api/health answers 200 with status partial, no
\* agents and the fixed metrics; no response of either route is an error.
C15_FallbackOnOutage ==
  [][\A route \in ProxyRoutes :
       LET before == proxyReqs[route]
           after == proxyReqs'[route]
       IN /\ ( /\ before.pc \in {"awaitFetch", "awaitJson"}
               /\ after.pc = "done"
               /\ ~ \E data \in BackendProxyPayloads(route) : ProxyJsonOk(route, data) )
             => /\ after.status = 200
                /\ after.method \in ProxyMethods
                /\ IF route = AgentsStatusRoute
                   THEN /\ [i \in 1..Len(after.body) |-> after.body[i].agentName]
                             = <<"QueryHandler", "SemanticSearch", "FallbackRAG",
                                 "Summarizer", "TTS", "Vision">>
                        /\ \A i \in 1..Len(after.body) :
                             /\ after.body[i].status = "ready"
                             /\ after.body[i].lastActivity = clock
                   ELSE /\ after.body.status = "partial"
                        /\ after.body.timestamp = clock
                        /\ after.body.agents = <<>>
                        /\ after.body.metrics =
                             [vectorDBSize |-> "Unknown",
                              ollamaStatus |-> "disconnected",
                              responseTime |-> "Unknown"]
          /\ after.pc = "done" => after.status = 200]_vars

C15_Witness ==
  /\ proxyReqs[AgentsStatusRoute].pc = "done"
  /\ proxyReqs[AgentsStatusRoute].method = "DELETE"
  /\ proxyReqs[AgentsStatusRoute].kind = "fallback"
  /\ Len(proxyReqs[AgentsStatusRoute].body) = Len(fallbackAgents)
  /\ proxyReqs[AgentsStatusRoute].body[1].lastActivity = WINDOW - 1
  /\ proxyReqs[HealthRoute].pc = "done"
  /\ proxyReqs[HealthRoute].kind = "fallback"
  /\ proxyReqs[HealthRoute].body.status = "partial"
  /\ proxyReqs[HealthRoute].body.timestamp = WINDOW

\* The ids of the stored records of the four families.
StoredIds ==
  {conversations[i].id : i \in 1..Len(conversations)}
    \cup {messages[i].id : i \in 1..Len(messages)}
    \cup {agentStatuses[i].value.id : i \in 1..Len(agentStatuses)}
    \cup {vectorDocuments[i].id : i \in 1..Len(vectorDocuments)}

StoredRecords ==
  Len(conversations) + Len(messages) + Len(agentStatuses) + Len(vectorDocuments)

\* C16: conversations, messages, agent statuses and vector documents draw
\* their ids from one counter that never goes back: an id given in a step is
\* the counter's value, above every id stored in any family and every id
\* given before, so no two records of any families share an id and the id of
\* a deleted record is not given again.
C16_SharedIdGenerator ==
  [][/\ currentId' >= currentId
     /\ Cardinality(StoredIds') = StoredRecords'
     /\ \A id \in StoredIds' \ StoredIds :
          /\ id = currentId
          /\ currentId' = currentId + 1
          /\ \A x \in StoredIds : x < id
     /\ \A id \in StoredIds' : id < currentId']_vars

C16_Witness ==
  /\ storageCall.op = "createVectorDocument"
  /\ storageCall.id = currentId - 1
  /\ Len(vectorDocuments) = 1
  /\ vectorDocuments[1].id = currentId - 1
  /\ MapHas(agentStatuses, "Indexer")
  /\ Len(messages) = 1
  /\ messages[1].id < MapGet(agentStatuses, "Indexer").id
  /\ \E id \in NewIds : id < currentId - 1 /\ id \notin StoredIds

\* C17 (as claimed): once a fresh turn of /api/chat has stored its user
\* message under conversation id c, getConversation(c) returns a record.
C17_ConversationOnFirstMessage ==
  \A r \in Requests :
    IsFresh(reqs[r])
      => getConversation(conversations, ConvOf(reqs[r])) # NoConversation

\* C18: updateConversation(id, patch) on a known id stores the record with
\* the patched title, the same id and createdAt and updatedAt at the time of
\* the call, and touches nothing else; on an unknown id it throws
\* 'Conversation not found' and leaves the store as it was; every stored
\* conversation has createdAt <= updatedAt.
C18_ConversationUpdate ==
  [][/\ \A id \in NewIds, updates \in ConversationPatches :
          UpdateConversation(id, updates)
          => IF getConversation(conversations, id) # NoConversation
             THEN LET before == getConversation(conversations, id)
                      after == getConversation(conversations', id)
                  IN /\ after.id = before.id
                     /\ after.createdAt = before.createdAt
                     /\ after.updatedAt = clock
                     /\ after.title = IF updates.title = Undefined
                                      THEN before.title ELSE updates.title
                     /\ storageCall'.threw = Null
                     /\ Len(conversations') = Len(conversations)
                     /\ \A i \in 1..Len(conversations) :
                          conversations[i].id # id
                            => conversations'[i] = conversations[i]
                     /\ <<currentId, messages, agentStatuses, vectorDocuments>>'
                          = <<currentId, messages, agentStatuses, vectorDocuments>>
             ELSE /\ storageCall'.threw = "Conversation not found"
                  /\ store' = store
     /\ \A c \in Range(conversations') : c.createdAt <= c.updatedAt]_vars

C18_Witness ==
  /\ storageCall.op = "updateConversation"
  /\ storageCall.threw = Null
  /\ \E c \in Range(conversations) :
       /\ c.id = storageCall.id
       /\ c.title = "u"
       /\ c.createdAt = 0
       /\ c.updatedAt = WINDOW
  /\ \E c \in Range(conversations) : c.id # storageCall.id /\ c.title = "t"

\* The request is in flight: it arrived and was not answered.
InFlight(q) == q.pc \notin {"idle", "done"}

\* The upstream call of the request was issued and has not completed.
UpstreamPending(q) == q.pc \in {"awaitFetch", "awaitJson"}

\* C19: while the upstream call of a fresh turn has not completed the
\* request has no response, its user message is stored and it has created no
\* assistant message, and only the completion of the upstream call moves
\* it on (so a call that never completes leaves it there for ever); a
\* request gets its response once, with status 200, 400 or 500; and if
\* every upstream call completes, every request in flight is answered.
C19_HungUpstream ==
  /\ [](\A r \in Requests :
          /\ UpstreamPending(reqs[r])
               => /\ reqs[r].response.status = 0
                  /\ reqs[r].response.aiMessage = NullMessage
                  /\ reqs[r].userMessage \in Range(messages)
          /\ InFlight(reqs[r]) => reqs[r].response.status = 0
          /\ reqs[r].pc = "done" => reqs[r].response.status \in {200, 400, 500})
  /\ [][\A r \in Requests :
          /\ (UpstreamPending(reqs[r]) /\ reqs'[r] # reqs[r])
               => UpstreamCompletes(r)
          /\ (reqs[r].pc = "done" /\ reqs'[r] # reqs[r])
               => \E m \in {"hello", ""} : ChatStart(r, m, Absent, Undefined)
          /\ \A m \in Range(messages') \ Range(messages) :
               (m.role = "assistant" /\ reqs'[r].response.aiMessage = m)
                 => reqs[r].pc = "awaitJson"]_vars
  /\ (\A r \in Requests : WF_vars(UpstreamCompletes(r)))
       => \A r \in Requests : InFlight(reqs[r]) ~> reqs[r].pc = "done"

C19_Witness ==
  \E r1, r2 \in Requests :
    /\ reqs[r1].pc = "awaitFetch"
    /\ reqs[r1].userMessage.createdAt = 0
    /\ reqs[r1].userMessage \in Range(messages)
    /\ clock = WINDOW
    /\ reqs[r2].pc = "done" /\ reqs[r2].branch = "fresh"
    /\ reqs[r2].response.status = 200
    /\ Len(messages) = 3

\* C20 (as claimed): after a fresh turn for (c, m) ended in an upstream
\* failure with its user message U stored, U being the only user message
\* with that content, an identical request sent after the failure takes the
\* pending path (200, userMessage U, aiMessage null, nothing stored, no
\* upstream call) if it comes less than the window after U.createdAt, and
\* starts a fresh turn if it comes at or after the window.
C20_RecoveryByResend ==
  \A r1, r2 \in Requests :
    LET q1 == reqs[r1]
        q2 == reqs[r2]
        U == q1.userMessage
    IN ( /\ r1 # r2
         /\ q1.pc = "done" /\ q1.branch = "error"
         /\ PastCheck(q2)
         /\ SameConversationAndContent(q1, q2)
         /\ U \in Hist(q2)
         /\ \A m \in Hist(q2) :
              (m.role = "user" /\ m.content = q2.message) => m = U )
       => IF q2.now - U.createdAt < WINDOW
          THEN /\ q2.pc = "done" /\ q2.branch = "pending"
               /\ q2.response =
                    [status |-> 200, userMessage |-> U,
                     aiMessage |-> NullMessage, metadata |-> Null]
               /\ q2.userMessage = NullMessage
          ELSE IsFresh(q2)

\* The position of the conversation in the Map's entries.
StoredAt(c) == CHOOSE i \in 1..Len(conversations) : conversations[i] = c

\* C21: getConversations returns every stored conversation exactly once,
\* newest updatedAt first, and conversations with equal updatedAt in the
\* order of the Map's entries, so that two calls with no create, update or
\* delete between them return the same array.
C21_ConversationListing ==
  /\ LET listed == getConversations(conversations)
     IN /\ Len(listed) = Len(conversations)
        /\ Range(listed) = Range(conversations)
        /\ \A c \in Range(conversations) :
             Cardinality({i \in 1..Len(listed) : listed[i] = c}) = 1
        /\ \A i, j \in 1..Len(listed) :
             i < j => /\ listed[i].updatedAt >= listed[j].updatedAt
                      /\ listed[i].updatedAt = listed[j].updatedAt
                           => StoredAt(listed[i]) < StoredAt(listed[j])
  /\ (returned.op = "getConversations"
        /\ Range(returned.value) = Range(conversations))
       => returned.value = getConversations(conversations)

C21_Witness ==
  /\ returned.op = "getConversations"
  /\ Len(returned.value) = 3
  /\ returned.value = getConversations(conversations)
  /\ returned.value[1].updatedAt > returned.value[2].updatedAt
  /\ returned.value[2].updatedAt = returned.value[3].updatedAt
  /\ returned.value[1].id < returned.value[2].id
  /\ returned.value[2].id < returned.value[3].id

\* The keys no record of the family is stored under.
UnknownConversation(id) ==
  /\ getConversation(conversations, id) = NoConversation
  /\ \A m \in Range(messages) : m.conversationId # id

\* C22: a get on a key that is not stored returns undefined, throws nothing
\* and leaves the store as it was, in each of the four families; deleteMessage
\* and deleteVectorDocument on an id that is not stored, and deleteConversation
\* on an id with no conversation and no messages, complete without an error
\* and leave the store as it was.
C22_AbsentKey ==
  [][/\ \A id \in NewIds :
          /\ (GetConversation(id) /\ getConversation(conversations, id) = NoConversation)
               => /\ returned'.value = NoConversation /\ returned'.threw = Null
                  /\ store' = store
          /\ (GetMessage(id) /\ \A m \in Range(messages) : m.id # id)
               => /\ returned'.value = NullMessage /\ returned'.threw = Null
                  /\ store' = store
          /\ (GetVectorDocument(id) /\ \A d \in Range(vectorDocuments) : d.id # id)
               => /\ returned'.value = NoVectorDocument /\ returned'.threw = Null
                  /\ store' = store
          /\ (DeleteMessage(id) /\ \A m \in Range(messages) : m.id # id)
               => storageCall'.threw = Null /\ store' = store
          /\ (DeleteVectorDocument(id) /\ \A d \in Range(vectorDocuments) : d.id # id)
               => storageCall'.threw = Null /\ store' = store
          /\ (DeleteStart(id) /\ UnknownConversation(id))
               => delReq'.pc = "awaitDelete" /\ store' = store
     /\ \A n \in AgentNames :
          (GetAgentStatus(n) /\ ~MapHas(agentStatuses, n))
            => /\ returned'.value = NoAgentStatus /\ returned'.threw = Null
               /\ store' = store
     /\ (delReq.pc = "awaitDelete" /\ delReq'.pc = "done") => delReq'.status = 204]_vars

C22_Witness ==
  /\ returned.op = "getMessage" /\ returned.key = MaxId
  /\ returned.value = NullMessage
  /\ storageCall.op = "deleteVectorDocument" /\ storageCall.id = MaxId
  /\ storageCall.threw = Null
  /\ delReq.pc = "done" /\ delReq.id = MaxId /\ delReq.status = 204
  /\ Len(conversations) = 1 /\ Len(messages) = 1 /\ vectorDocuments = <<>>
  /\ currentId = InitialId + Len(defaultAgents) + MaxKeyRecords

\* The registry holds one record per name of the roster, ready, without
\* metadata, and the other three families are empty.
RosterOnly ==
  /\ \A n \in {"QueryHandler", "SemanticSearch", "FallbackRAG", "Summarizer",
                "TTS", "Vision"} :
       /\ Cardinality(Keyed(agentStatuses, n)) = 1
       /\ Cardinality(Named(agentStatuses, n)) = 1
       /\ getAgentStatus(agentStatuses, n).agentName = n
       /\ getAgentStatus(agentStatuses, n).status = "ready"
       /\ getAgentStatus(agentStatuses, n).metadata = Null
  /\ Len(agentStatuses) = 6
  /\ conversations = <<>>
  /\ messages = <<>>
  /\ vectorDocuments = <<>>

\* C23: in the initial state, and for as long as no store method was called,
\* the registry holds exactly one record for each of QueryHandler,
\* SemanticSearch, FallbackRAG, Summarizer, TTS and Vision, each ready and
\* without metadata, and there are no conversations, messages or documents.
C23_BootstrapRoster ==
  /\ RosterOnly
  /\ [](storageCall = NoCall => RosterOnly)

C23_Witness ==
  /\ storageCall = NoCall
  /\ clock = 0
  /\ currentId = InitialId + Len(defaultAgents)
  /\ [i \in 1..Len(agentStatuses) |-> agentStatuses[i].value.id] = <<1, 2, 3, 4, 5, 6>>
  /\ MapGet(agentStatuses, "Vision").status = "ready"

\* What a /api/chat handler reads and writes.
chatView == <<clock, store, reqs, upstreamCalls, upstreamOk>>

\* Some handler of a proxied route moved.
ProxyStep == proxyReqs' # proxyReqs

\* C24: a step of a /api/agents/status or /api/health handler (any method,
\* upstream answering or failing) changes neither the store nor anything a
\* /api/chat handler reads or writes, and every step that does change those
\* is a step of the chat protocol running alone, so what a /api/chat request
\* stores and answers is the same with any number of proxied requests
\* interleaved.
C24_ProxyIsolation ==
  [][/\ ProxyStep
          => /\ store' = store
             /\ chatView' = chatView
             /\ <<crud, storageCall, returned>>' = <<crud, storageCall, returned>>
     /\ chatView' # chatView
          => /\ proxyReqs' = proxyReqs
             /\ \/ Tick
                \/ ChatStep({1}, {"hello", ""}, {Absent}, {Undefined}, BackendPayloads)]_vars

C24_Witness ==
  /\ reqs[1].pc = "done" /\ reqs[1].branch = "replay"
  /\ proxyReqs[AgentsStatusRoute].pc = "done"
  /\ proxyReqs[AgentsStatusRoute].method = "POST"
  /\ proxyReqs[AgentsStatusRoute].kind = "data"
  /\ proxyReqs[HealthRoute].pc = "done"
  /\ proxyReqs[HealthRoute].kind = "fallback"
  /\ proxyReqs[HealthRoute].body.timestamp = 0
  /\ Len(messages) = 2
  /\ messages[2].createdAt = WINDOW - 1

\* The request was answered from a fresh turn whose upstream call succeeded.
FreshDone(q) == q.pc = "done" /\ q.branch = "fresh"

\* C25: a fresh turn whose upstream call succeeds stores exactly two
\* messages, both under the request's conversation: first the user message
\* (role user, the request's content and messageType), then the assistant
\* message (role assistant, content the backend's response, messageType
\* text, agentUsed the backend's agent_used, null when the backend gave
\* none), and answers with exactly these two stored records.
C25_FreshTurnEffect ==
  /\ [](\A r \in {1} :
          LET q == reqs[r]
              U == q.response.userMessage
              A == q.response.aiMessage
          IN FreshDone(q) =>
               /\ q.response.status = 200
               /\ U \in Range(messages) /\ A \in Range(messages)
               /\ PositionIn(U, messages) < PositionIn(A, messages)
               /\ U.id < A.id /\ U.createdAt <= A.createdAt
               /\ U.conversationId = ConvOf(q) /\ A.conversationId = ConvOf(q)
               /\ U.role = "user" /\ U.content = q.message
               /\ U.messageType = q.messageType
               /\ A.role = "assistant" /\ A.content = q.backendData.response
               /\ A.messageType = "text"
               /\ A.agentUsed = OrNull(q.backendData.agent_used)
               /\ A.metadata = OrNull(q.backendData.metadata)
               /\ q.response.metadata = q.backendData.metadata)
  /\ [][\A r \in {1} :
          /\ (reqs[r].pc = "awaitGetMessages" /\ reqs'[r].pc = "awaitCreateUser")
               => messages' = Append(messages, reqs'[r].userMessage)
          /\ (reqs[r].pc = "awaitJson" /\ reqs'[r].pc = "awaitCreateAi")
               => messages' = Append(messages, reqs'[r].response.aiMessage)
          /\ messages' # messages
               => \/ reqs[r].pc = "awaitGetMessages" /\ reqs'[r].pc = "awaitCreateUser"
                  \/ reqs[r].pc = "awaitJson" /\ reqs'[r].pc = "awaitCreateAi"
          /\ (FreshDone(reqs'[r]) /\ ~FreshDone(reqs[r]))
               => /\ reqs'[r].response.userMessage = reqs[r].userMessage
                  /\ Len(getMessages(messages', ConvOf(reqs[r])))
                       = Len(reqs[r].recentMessages) + 2]_vars

C25_Witness ==
  /\ FreshDone(reqs[1])
  /\ reqs[1].conversationId = 7
  /\ reqs[1].messageType = "voice"
  /\ reqs[1].response.userMessage.messageType = "voice"
  /\ reqs[1].response.aiMessage.messageType = "text"
  /\ reqs[1].response.aiMessage.agentUsed = "QueryHandler"
  /\ reqs[1].response.aiMessage.createdAt = WINDOW
  /\ reqs[1].response.userMessage.createdAt = 0
  /\ getMessages(messages, 7)
       = <<reqs[1].response.userMessage, reqs[1].response.aiMessage>>

\* The stored message has role user, the request's conversation and exactly
\* the request's content.
SameScope(m, q) ==
  m.role = "user" /\ m.conversationId = ConvOf(q) /\ m.content = q.message

\* C26: a request is answered as a duplicate only from a stored message of
\* role user, of the request's conversation and with exactly the request's
\* content; when every message stored at the time of the history read lacks
\* one of the three (role assistant or system, another conversation, other
\* case or surrounding whitespace) the request is a fresh turn, however
\* recent those messages are.
C26_DedupScope ==
  /\ [](\A r \in {1} :
          LET q == reqs[r]
          IN /\ IsResend(q)
                  => /\ q.response.userMessage \in Range(messages)
                     /\ SameScope(q.response.userMessage, q)
             /\ PastCheck(q)
                  => (IsFresh(q) <=> \A m \in Hist(q) : ~InWindow(m, q)))
  /\ [][\A r \in {1} :
          /\ (reqs[r].pc \in {"idle", "done"} /\ reqs'[r].pc = "awaitGetMessages")
               => Hist(reqs'[r])
                    = {m \in Range(messages) : m.conversationId = ConvOf(reqs'[r])}
          /\ ( /\ reqs[r].pc \in {"idle", "done"}
               /\ reqs'[r].pc = "awaitGetMessages"
               /\ \A m \in Range(messages) : ~SameScope(m, reqs'[r]) )
               => \A m \in Hist(reqs'[r]) :
                    m.role # "user" \/ m.content # reqs'[r].message
          /\ ( /\ reqs[r].pc = "awaitGetMessages"
               /\ reqs'[r] # reqs[r]
               /\ \A m \in Hist(reqs[r]) : ~SameScope(m, reqs[r]) )
               => /\ reqs'[r].pc = "awaitCreateUser"
                  /\ reqs'[r].userMessage \in Range(messages')]_vars

C26_Witness ==
  /\ reqs[1].pc = "awaitCreateUser"
  /\ reqs[1].now = WINDOW - 1
  /\ Len(reqs[1].recentMessages) = 2
  /\ \E m \in Hist(reqs[1]) : m.role = "assistant" /\ m.content = "hello"
  /\ \E m \in Hist(reqs[1]) : m.role = "user" /\ m.content = "Hello"
  /\ \E m \in Range(messages) :
       m.role = "user" /\ m.content = "hello" /\ m.conversationId = 7
  /\ \A m \in Range(messages) : m.id # reqs[1].userMessage.id => m.createdAt = 0

\* The upstream call of the request was issued.
Forwarded(q) == q.sent # NoChatRequest

\* C27 (as claimed): a request without conversationId reads the history of
\* the default conversation, stores its user and assistant messages under
\* it and sends the same id to the upstream as conversation_id; its stored
\* user message has messageType text when the request had none.
C27_DefaultConversation ==
  \A r \in {1} :
    LET q == reqs[r]
    IN (q.conversationId = Absent /\ Forwarded(q))
       => /\ \A m \in Hist(q) : m.conversationId = DefaultConversation
          /\ q.userMessage.conversationId = DefaultConversation
          /\ q.response.aiMessage # NullMessage
               => q.response.aiMessage.conversationId = DefaultConversation
          /\ q.sent.conversation_id = DefaultConversation
          /\ q.sent.message_type = q.userMessage.messageType

\* The handler in slot r stores its user message in this step.
StoresUser(r) ==
  reqs[r].pc = "awaitGetMessages" /\ reqs'[r].pc = "awaitCreateUser"

\* The handler in slot r stores the reply in this step.
StoresReply(r) == reqs[r].pc = "awaitJson" /\ reqs'[r].pc = "awaitCreateAi"

\* What a handler starts from: the request body and the history read, and
\* nothing left by an earlier request.
StartsFrom(q) ==
  \/ q = [IdleRequest EXCEPT !.pc = "done", !.branch = "invalid",
                             !.response.status = 400]
  \/ q = [IdleRequest EXCEPT !.pc = "awaitGetMessages", !.message = q.message,
             !.conversationId = q.conversationId, !.messageType = q.messageType,
             !.recentMessages = getMessages(messages, ConvOf(q))]

\* C28: on every path a step of a /api/chat handler leaves every stored
\* message, the conversations, the agent statuses and the documents as they
\* were; it appends a message only where the handler stores its user message
\* or its reply, once each per request, the id counter advancing by the
\* number of messages appended; and a request starts from its body and the
\* store alone, whatever requests were handled before.
C28_ChatFrame ==
  /\ [][reqs' # reqs
          => /\ conversations' = conversations
             /\ agentStatuses' = agentStatuses
             /\ vectorDocuments' = vectorDocuments
             /\ Len(messages') >= Len(messages)
             /\ SubSeq(messages', 1, Len(messages)) = messages
             /\ currentId' - currentId = Len(messages') - Len(messages)
             /\ \A r \in Requests :
                  reqs'[r] # reqs[r]
                    => /\ Len(messages') - Len(messages)
                            = IF StoresUser(r) \/ StoresReply(r) THEN 1 ELSE 0
                       /\ StoresUser(r)
                            => messages'[Len(messages')] = reqs'[r].userMessage
                       /\ StoresReply(r)
                            => messages'[Len(messages')] = reqs'[r].response.aiMessage
                       /\ IsFree(r) => StartsFrom(reqs'[r])]_vars
  /\ [](\A r \in Requests :
          LET q == reqs[r]
          IN /\ (q.pc = "done" /\ q.branch \in {"invalid", "replay", "pending"})
                  => q.userMessage = NullMessage
             /\ (q.pc = "done" /\ q.branch = "error")
                  => q.response.aiMessage = NullMessage
             /\ q.pc \in {"awaitGetMessages", "awaitCreateUser", "awaitFetch", "awaitJson"}
                  => q.response.aiMessage = NullMessage)

C28_Witness ==
  /\ conversations = <<[id |-> 7, title |-> "t", createdAt |-> 0, updatedAt |-> 0]>>
  /\ clock = WINDOW
  /\ \E r1, r2 \in Requests :
       /\ FreshDone(reqs[r1]) /\ reqs[r1].conversationId = 7
       /\ reqs[r1].response.aiMessage.createdAt = WINDOW
       /\ reqs[r2].pc = "done" /\ reqs[r2].branch = "error"
       /\ reqs[r2].conversationId = Absent
  /\ Len(messages) = 3
  /\ currentId = MaxId + 1

\* The field of the patched record: the patch's value where it carries one.
Patched(old, new, missing) == IF new = missing THEN old ELSE new

\* C29: the record stored under a message id changes only in a step that is
\* updateMessage on that id; updateMessage on a known id stores the record
\* with the patched fields replaced and every other field, its id and its
\* createdAt as they were, and touches nothing else; on an unknown id it
\* throws 'Message not found' and leaves the store as it was.
C29_MessageImmutability ==
  [][/\ \A id \in NewIds :
          ( /\ getMessage(messages, id) # NullMessage
            /\ getMessage(messages', id) # NullMessage
            /\ getMessage(messages', id) # getMessage(messages, id) )
          => \E updates \in MessagePatches : UpdateMessage(id, updates)
     /\ \A id \in NewIds, updates \in MessagePatches :
          UpdateMessage(id, updates)
          => IF getMessage(messages, id) # NullMessage
             THEN LET before == getMessage(messages, id)
                      after == getMessage(messages', id)
                  IN /\ after.id = before.id
                     /\ after.createdAt = before.createdAt
                     /\ after.conversationId
                          = Patched(before.conversationId, updates.conversationId, Absent)
                     /\ after.content = Patched(before.content, updates.content, Undefined)
                     /\ after.role = Patched(before.role, updates.role, Undefined)
                     /\ after.messageType
                          = Patched(before.messageType, updates.messageType, Undefined)
                     /\ after.metadata = Patched(before.metadata, updates.metadata, Undefined)
                     /\ after.agentUsed = Patched(before.agentUsed, updates.agentUsed, Undefined)
                     /\ storageCall'.threw = Null
                     /\ Len(messages') = Len(messages)
                     /\ \A i \in 1..Len(messages) :
                          messages[i].id # id => messages'[i] = messages[i]
                     /\ <<currentId, conversations, agentStatuses, vectorDocuments>>'
                          = <<currentId, conversations, agentStatuses, vectorDocuments>>
             ELSE /\ storageCall'.threw = "Message not found"
                  /\ store' = store]_vars

C29_Witness ==
  /\ storageCall.op = "updateMessage"
  /\ storageCall.threw = Null
  /\ clock = WINDOW
  /\ \E m \in Range(messages) :
       /\ m.id = storageCall.id
       /\ m.content = "edited"
       /\ m.conversationId = 8
       /\ m.createdAt = 0
  /\ \E m \in Range(messages) :
       m.id # storageCall.id /\ m.content = "hello" /\ m.conversationId = 7

\* C30 (as claimed): whenever a request is answered on the replay path with
\* userMessage U and aiMessage A, A is the assistant message stored by the
\* fresh turn that stored U, also when that turn failed or is still in
\* flight while the reply of another turn is stored.
C30_ReplyProvenance ==
  \A r1, r2 \in Requests :
    LET q1 == reqs[r1]
        q2 == reqs[r2]
    IN ( /\ r1 # r2
         /\ q2.pc = "done" /\ q2.branch = "replay"
         /\ IsFresh(q1)
         /\ q1.userMessage = q2.response.userMessage )
       => q2.response.aiMessage = q1.response.aiMessage

\* C31 (as claimed): when deleteConversation(c) ran while a fresh turn for c
\* was awaiting the upstream (its stored user message is gone), then once
\* the turn has finished getMessages(c) is empty.
C31_DeleteVersusInFlight ==
  \A r \in {1} :
    LET q == reqs[r]
    IN ( /\ q.pc = "done"
         /\ IsFresh(q)
         /\ q.userMessage \notin Range(messages) )
       => getMessages(messages, ConvOf(q)) = <<>>

\* The stored messages with the role; under Spec every message is created
\* by /api/chat and none is deleted.
CreatedWithRole(role) ==
  Cardinality({i \in 1..Len(messages) : messages[i].role = role})

\* The handlers at the given point.
HandlersAt(pc) == Cardinality({r \in Requests : reqs[r].pc = pc})

\* C32 (as claimed): in every state the number of upstream chat calls issued
\* equals the number of user messages created by /api/chat, and the number
\* of assistant messages created by /api/chat is at most the number of
\* upstream calls that were answered successfully.
C32_UpstreamAccounting ==
  /\ upstreamCalls = CreatedWithRole("user")
  /\ CreatedWithRole("assistant") <= upstreamOk

\* C32 (amended): the number of user messages created by /api/chat equals
\* the number of upstream calls issued plus the number of handlers that have
\* stored their user message and not yet issued their call; the number of
\* assistant messages created, plus the handlers still reading a successful
\* answer, is at most the number of calls answered successfully, which is
\* at most the number of calls issued.
C32_UpstreamAccountingInFlight ==
  /\ CreatedWithRole("user") = upstreamCalls + HandlersAt("awaitCreateUser")
  /\ CreatedWithRole("assistant") + HandlersAt("awaitJson") <= upstreamOk
  /\ upstreamOk + HandlersAt("awaitFetch") <= upstreamCalls

C32_Witness ==
  /\ HandlersAt("awaitCreateUser") = 1
  /\ HandlersAt("awaitJson") = 1
  /\ CreatedWithRole("user") = 3
  /\ upstreamCalls = 2
  /\ upstreamOk = 2
  /\ CreatedWithRole("assistant") = 0

\* The stored user messages with the conversation and content of request q.
Anchors(q) ==
  {m \in Range(messages) :
     /\ m.conversationId = ConvOf(q)
     /\ m.role = "user"
     /\ m.content = q.message}

\* C33: the dedup window is anchored at the createdAt of the stored user
\* message and resends do not move it: a request answered as a duplicate
\* stores nothing and names a stored user message less than 30000 ms old, a
\* stored message keeps its createdAt, and a request whose check runs when
\* every stored user message of its conversation and content is 30000 ms old
\* or older is a fresh turn that stores a new user message stamped with the
\* time of the check, however many resends were answered in between.
C33_WindowAnchoring ==
  /\ [][\A r \in Requests :
         (reqs[r].pc = "awaitGetMessages" /\ reqs'[r] # reqs[r]) =>
           LET q == reqs[r]
               p == reqs'[r]
           IN /\ (\A m \in Anchors(q) : clock >= m.createdAt + WINDOW) =>
                   /\ p.pc = "awaitCreateUser"
                   /\ p.userMessage.createdAt = clock
                   /\ messages' = Append(messages, p.userMessage)
              /\ IsResend(p) =>
                   /\ messages' = messages
                   /\ p.response.userMessage \in Anchors(q)
                   /\ clock < p.response.userMessage.createdAt + WINDOW]_vars
  /\ [][\A i \in 1..Len(messages) :
         /\ i <= Len(messages')
         /\ messages'[i].id = messages[i].id
         /\ messages'[i].createdAt = messages[i].createdAt]_vars

\* A user message stored at 0, an identical resend answered as a duplicate
\* at 29999 and a further identical request at 30000 that is a fresh turn.
C33_Witness ==
  /\ IsResend(reqs[2])
  /\ reqs[2].now = WINDOW - 1
  /\ reqs[2].response.userMessage.createdAt = 0
  /\ IsFresh(reqs[1])
  /\ reqs[1].now = WINDOW
  /\ reqs[1].userMessage.createdAt = WINDOW
  /\ SameConversationAndContent(reqs[1], reqs[2])
  /\ reqs[2].response.userMessage \in Anchors(reqs[1])
  /\ reqs[1].userMessage \in Anchors(reqs[1])

\* /api/chat with and without a conversation id on a server where
\* conversations are created and deleted.
NextDefault ==
  \/ Tick
  \/ CreateConversation("t")
  \/ \E id \in StoreConversationIds : DeleteStart(id)
  \/ DeleteRespond
  \/ ChatStep({1}, {"hello", ""}, ChatConversationIds, {Undefined},
              BackendPayloads)

SpecDefault == Init /\ [][NextDefault]_vars

\* C34: the six bootstrap agent records hold the identifiers 1 to 6 of the
\* shared counter, every Conversation record has id >= 7, no Conversation
\* has id 1, and every message stored under the default conversation id 1
\* references no existing Conversation.
C34_DefaultConversationAbsent ==
  /\ \A i \in 1..Len(defaultAgents) :
       MapGet(agentStatuses, defaultAgents[i]).id = i
  /\ currentId > Len(defaultAgents)
  /\ \A i \in 1..Len(conversations) :
       conversations[i].id >= Len(defaultAgents) + 1
  /\ getConversation(conversations, DefaultConversation) = NoConversation
  /\ \A i \in 1..Len(messages) :
       messages[i].conversationId = DefaultConversation
         => \A j \in 1..Len(conversations) :
              conversations[j].id # messages[i].conversationId

\* The first conversation created has id 7, and a request without a
\* conversation id has its turn stored under conversation 1.
C34_Witness ==
  /\ Len(conversations) >= 1
  /\ conversations[1].id = 7
  /\ reqs[1].pc = "done"
  /\ reqs[1].conversationId = Absent
  /\ reqs[1].userMessage \in Range(messages)
  /\ reqs[1].userMessage.conversationId = DefaultConversation
  /\ reqs[1].response.aiMessage \in Range(messages)
  /\ reqs[1].response.aiMessage.conversationId = DefaultConversation

\* C35: POST /api/conversations/:id/messages with a valid body appends one
\* new message with the next id, stamped with the time of the call, whatever
\* is stored already, and issues no upstream call; a /api/chat request reads
\* every stored message of its conversation, and when its check finds in
\* that history a user message with its content less than 30000 ms old, it
\* is answered as a duplicate: nothing is stored and no upstream call is
\* issued for it.
C35_DirectCreationFeedsDedup ==
  /\ [][\A seed \in ScopeSeeds :
         PostMessage(seed.conversationId, seed.content, seed.role, "text")
           => /\ Len(messages') = Len(messages) + 1
              /\ \A i \in 1..Len(messages) : messages'[i] = messages[i]
              /\ LET m == messages'[Len(messages')]
                 IN /\ m.id = currentId
                    /\ m.conversationId = seed.conversationId
                    /\ m.content = seed.content
                    /\ m.role = seed.role
                    /\ m.createdAt = clock
              /\ upstreamCalls' = upstreamCalls]_vars
  /\ [][\A r \in {1} :
         /\ (reqs[r].pc \in {"idle", "done"} /\ reqs'[r].pc = "awaitGetMessages")
              => \A m \in Range(messages) :
                   SameScope(m, reqs'[r]) => m \in Hist(reqs'[r])
         /\ ( /\ reqs[r].pc = "awaitGetMessages"
              /\ reqs'[r] # reqs[r]
              /\ \E m \in Hist(reqs[r]) :
                   SameScope(m, reqs[r]) /\ clock - m.createdAt < WINDOW )
              => /\ IsResend(reqs'[r])
                 /\ ~Forwarded(reqs'[r])
                 /\ messages' = messages
                 /\ upstreamCalls' = upstreamCalls]_vars
  /\ [](\A r \in {1} : IsResend(reqs[r]) => ~Forwarded(reqs[r]))
  /\ [](\A seed \in ScopeSeeds :
          IdBudget(1) =>
            /\ ENABLED ( /\ PostMessage(seed.conversationId, seed.content,
                                        seed.role, "text")
                         /\ Len(messages') = Len(messages) + 1 )
            /\ ~ENABLED ( /\ PostMessage(seed.conversationId, seed.content,
                                         seed.role, "text")
                          /\ messages' = messages ))

\* Two identical user messages posted 29999 ms apart, and a /api/chat request
\* with their conversation and content answered as a duplicate of the first
\* without any upstream call.
C35_Witness ==
  /\ upstreamCalls = 0
  /\ Len(messages) = 2
  /\ SameScope(messages[1], reqs[1])
  /\ SameScope(messages[2], reqs[1])
  /\ messages[1].createdAt = 0
  /\ messages[2].createdAt = WINDOW - 1
  /\ IsResend(reqs[1])
  /\ reqs[1].now = WINDOW - 1
  /\ reqs[1].response.userMessage = messages[1]

\* The position of message m in the sequence s.
PositionOf(m, s) == CHOOSE i \in 1..Len(s) : s[i] = m

\* C36: for every fresh turn that succeeded, the assistant message has a
\* greater id than the user message and a createdAt that is not smaller, and
\* getMessages of the conversation lists the user message before the
\* assistant message, also when both have the same createdAt.
C36_ReplyFollowsUserMessage ==
  \A r \in Requests :
    FreshDone(reqs[r]) =>
      LET U == reqs[r].response.userMessage
          A == reqs[r].response.aiMessage
          listed == getMessages(messages, ConvOf(reqs[r]))
      IN /\ U \in Range(listed)
         /\ A \in Range(listed)
         /\ A.id > U.id
         /\ A.createdAt >= U.createdAt
         /\ PositionOf(U, listed) < PositionOf(A, listed)

\* Two fresh turns of one conversation succeeded within the same
\* millisecond, the replies stored in the opposite order of the user
\* messages: all four messages have the same createdAt.
C36_Witness ==
  /\ FreshDone(reqs[1])
  /\ FreshDone(reqs[2])
  /\ ConvOf(reqs[1]) = ConvOf(reqs[2])
  /\ Len(getMessages(messages, ConvOf(reqs[1]))) = 4
  /\ \A m \in Range(messages) : m.createdAt = 0
  /\ reqs[1].response.userMessage.id < reqs[2].response.userMessage.id
  /\ reqs[2].response.aiMessage.id < reqs[1].response.aiMessage.id

====
